---- MODULE Spec2Model ----
(***************************************************************************)
(* Versioned, snapshot-scoped record store (the SQLite backend) with its   *)
(* content-hash chain and snapshot manager, and the thread reconstructor   *)
(* of DataBrowser.                                                         *)
(*                                                                         *)
(* Strings are modelled by structured values:                              *)
(*   - an id is a tuple of path segments: <<did, rkey>> stands for         *)
(*     "at://<did>/<rkey>"; a LIKE pattern is such a tuple, "%" as its     *)
(*     last segment being the SQL wildcard;                                *)
(*   - JSON text is [json |-> object]; a SHA-256 digest is [sha |-> s]     *)
(*     with s the tuple of the strings that were concatenated into the     *)
(*     digest's input, so the digest is injective in its input;            *)
(*   - an ISO timestamp is the reading of the millisecond clock `now`.     *)
(***************************************************************************)
EXTENDS Integers, Sequences, FiniteSets, TLC

(* ------------------------------ bounds -------------------------------- *)
MaxSaves == 2
MaxTime == 1
MaxSnapOps == 2
MaxRunSaves == 3
MaxThreadOps == 3
StackLimit == 6
NumCallers == 2
MaxStores == 2
MaxContextOps == 4
MaxPages == 3             \* pages of a remote listblock collection
MaxRequests == 2          \* the requests of one page are counted up to this

(* ------------------------------ inputs -------------------------------- *)
Dids == {"abc", "xyz"}
PostIds == {<<"abc", "1">>, <<"xyz", "1">>}
Snapshots == {"S1", "S2"}
SnapshotNames == Snapshots \cup {"S3"}
\* "at://abc/" (no wildcard), "at://abc/%", and one exact id
Patterns == {<<"abc">>, <<"abc", "%">>, <<"xyz", "1">>}
Payloads == {[text |-> "a"], [text |-> "b"]}
RecordTypes == {"post"}
NoRow == <<>>

VARIABLES
    now,            \* the wall clock read by new Date(), in milliseconds
    snapshotsets,   \* rows of the snapshotsets table
    tables,         \* record table name -> set of rows; DOMAIN = created tables
    nextVersion,    \* stands for nanoid(): versions handed out so far
    savelog,        \* history: the direct save calls made, in call order
    ret,            \* the last operation: its arguments and what it returned
    nops,           \* snapshot-manager operations and record requests performed
    runA,           \* record tables of the first of two compared runs
    runB,           \* record tables of the second of two compared runs
    runlog,         \* history: the saves made in the two runs, in call order
    context,        \* the selected Context: its threadCache and threadFocus maps
    nthread,        \* thread requests served
    saveCalls,        \* the concurrent save calls: where each stands and what it holds
    inTransaction,  \* the connection has a transaction open
    deleteOp,       \* the deleteSnapshot call in flight: <<>> when there is none
    files,          \* the directory tree of the flatfile backend
    deleted,        \* history: versions that were stored under a snapshot when it was deleted
    selectedContext, \* ContextService.selectedContext
    currentContext,  \* ContextService.currentContext: <<>> when undefined
    contexts,        \* InMemoryContextHandler.contexts, in insertion order
    nextContext,     \* Context objects constructed so far
    heap,            \* Context object -> the keys of its posts, threadCache and threadFocus maps
    loadedPosts,     \* DataBrowser.loadedPosts
    ctxdb,           \* the tables of SQLiteContextHandler
    loadedIds,       \* history: the post ids the store returned at the last load of GetPosts
    listing          \* the GetSubcribedBlockLists call in flight: <<>> when there is none

storeVars == <<now, snapshotsets, tables, nextVersion>>
runVars == <<runA, runB, runlog>>
browserVars == <<context, nthread>>
concVars == <<saveCalls, inTransaction, deleteOp>>
flatVars == <<files, deleted>>
heapVars == <<heap, loadedPosts, ctxdb, loadedIds, listing>>
ctxVars == <<selectedContext, currentContext, contexts, nextContext, heapVars>>

vars == <<storeVars, savelog, ret, nops, runVars, browserVars, concVars, flatVars, ctxVars>>

(* ----------------------- hashing and provenance ----------------------- *)
JSONstringify(obj) == [json |-> obj]
JSONparse(text) == text.json

sha256(parts) == [sha |-> parts]

createHash_NoChain(data, previousDataHash) == sha256(<<JSONstringify(data)>>)
createHash(data, previousDataHash) ==
    IF previousDataHash # <<>>
        THEN sha256(<<previousDataHash[1], JSONstringify(data)>>)
        ELSE sha256(<<JSONstringify(data)>>)

\* { ...data, hash }
WithHash(data, hash) ==
    [k \in (DOMAIN data) \cup {"hash"} |-> IF k = "hash" THEN hash ELSE data[k]]

(* ------------------------------ tables -------------------------------- *)
tableExists(tbls, name) == name \in DOMAIN tbls

RowsOf(tbls, name) == IF tableExists(tbls, name) THEN tbls[name] ELSE {}

\* CREATE TABLE IF NOT EXISTS
ensureTableExists(tbls, name) ==
    IF tableExists(tbls, name) THEN tbls
    ELSE [t \in (DOMAIN tbls) \cup {name} |-> IF t = name THEN {} ELSE tbls[t]]

\* the rows "ORDER BY modified_at DESC LIMIT 1" may return: the order among
\* rows of equal modified_at is not specified
LatestRows(rows) == {r \in rows : \A q \in rows : q.modified_at <= r.modified_at}

\* SELECT ... FROM <table> WHERE id = ? ORDER BY modified_at DESC LIMIT 1
SelectLatest(tbls, name, id) ==
    LatestRows({r \in RowsOf(tbls, name) : r.id = id})

snapshotExists(snaps, s) == \E r \in snaps : r.snapshotset = s

(* ------------------------------- save --------------------------------- *)
\* the row save inserts, given the row read as "previous" (NoRow if none)
NewRow(id, data, snapshotset, version, t, previous) ==
    LET hash == IF previous # NoRow
                    THEN createHash(data, <<createHash(JSONparse(previous[1].data), <<>>)>>)
                    ELSE createHash(data, <<>>)
    IN  [id |-> id, snapshotset |-> snapshotset, version |-> version,
         data |-> JSONstringify(WithHash(data, hash)),
         created_at |-> t, modified_at |-> t, hash |-> hash]

\* the store as one value, so that a request making several saves can thread it
StoreState ==
    [tables |-> tables, snapshotsets |-> snapshotsets,
     nextVersion |-> nextVersion, now |-> now]

\* the outcomes of one save on store st: the store after it and the inserted row
saveResults(st, recordType, id, data, snapshotset) ==
    LET tbls == ensureTableExists(st.tables, recordType)
        cand == SelectLatest(tbls, recordType, id)
    IN  {LET row == NewRow(id, data, snapshotset, st.nextVersion + 1, st.now, previous)
         IN  [st |-> [st EXCEPT
                        !.tables = [tbls EXCEPT ![recordType] = @ \cup {row}],
                        !.snapshotsets =
                            IF snapshotExists(st.snapshotsets, snapshotset) THEN @
                            ELSE @ \cup {[snapshotset |-> snapshotset,
                                          created_at |-> st.now, modified_at |-> st.now]},
                        !.nextVersion = @ + 1],
              row |-> row] :
            previous \in (IF cand = {} THEN {NoRow} ELSE {<<r>> : r \in cand})}

save(recordType, id, data, snapshotset) ==
    /\ Len(savelog) < MaxSaves
    /\ \E o \in saveResults(StoreState, recordType, id, data, snapshotset) :
          /\ tables' = o.st.tables
          /\ snapshotsets' = o.st.snapshotsets
          /\ nextVersion' = o.st.nextVersion
          /\ savelog' = Append(savelog,
                 [recordType |-> recordType, id |-> id,
                  snapshotset |-> snapshotset, data |-> data,
                  version |-> o.row.version, hash |-> o.row.hash, at |-> now])
          /\ ret' = [op |-> "save", id |-> id, version |-> o.row.version,
                     hash |-> o.row.hash]
    /\ UNCHANGED <<now, nops, runVars, browserVars, concVars, flatVars, ctxVars>>

Save == \E rt \in RecordTypes, id \in PostIds, d \in Payloads, s \in Snapshots :
            save(rt, id, d, s)

\* time passes between two calls
Tick ==
    /\ now < MaxTime
    /\ now' = now + 1
    /\ UNCHANGED <<snapshotsets, tables, nextVersion, savelog, ret, nops, runVars, browserVars, concVars, flatVars, ctxVars>>

(* ------------------------------- fetch -------------------------------- *)
\* what fetch(recordType, id) without a version may return: <<>> for
\* undefined, else <<the parsed data column>>
fetchResults(tbls, recordType, id) ==
    IF ~tableExists(tbls, recordType) THEN {<<>>}
    ELSE LET cand == SelectLatest(tbls, recordType, id)
         IN  IF cand = {} THEN {<<>>} ELSE {<<JSONparse(r.data)>> : r \in cand}

\* the same, keeping the row that was read
fetchRows(tbls, recordType, id) ==
    IF ~tableExists(tbls, recordType) THEN {NoRow}
    ELSE LET cand == SelectLatest(tbls, recordType, id)
         IN  IF cand = {} THEN {NoRow} ELSE {<<r>> : r \in cand}

Fetch ==
    \E rt \in RecordTypes, id \in PostIds, snapshotSet \in Snapshots :
      \E r \in fetchRows(tables, rt, id) :
        \* snapshotSet is the caller's params.snapshotSet; fetch takes no such argument
        /\ ret' = [op |-> "fetch", recordType |-> rt, id |-> id,
                   snapshotSet |-> snapshotSet, row |-> r]
        /\ UNCHANGED <<now, snapshotsets, tables, nextVersion, savelog, nops, runVars, browserVars, concVars, flatVars, ctxVars>>


\* what fetch(recordType, id, version) may return: <<>> for undefined, else
\* <<JSON.parse of the data column>> of a row with that id and version
fetchVersion(tbls, recordType, id, version) ==
    IF ~tableExists(tbls, recordType) THEN {<<>>}
    ELSE LET cand == {r \in RowsOf(tbls, recordType) : r.id = id /\ r.version = version}
         IN  IF cand = {} THEN {<<>>} ELSE {<<JSONparse(r.data)>> : r \in cand}

FetchVersion ==
    \E rt \in RecordTypes, id \in PostIds, version \in 1..MaxSaves :
      \E v \in fetchVersion(tables, rt, id, version) :
        /\ ret' = [op |-> "fetch.version", recordType |-> rt, id |-> id,
                   version |-> version, value |-> v]
        /\ UNCHANGED <<now, snapshotsets, tables, nextVersion, savelog, nops, runVars, browserVars, concVars, flatVars, ctxVars>>
(* ----------------------------- searchById ----------------------------- *)
IsPrefix(p, id) == Len(p) <= Len(id) /\ SubSeq(id, 1, Len(p)) = p

\* id LIKE pattern: "%" (modelled as a last segment) matches any suffix
Like(id, pattern) ==
    IF pattern # <<>> /\ pattern[Len(pattern)] = "%"
        THEN IsPrefix(SubSeq(pattern, 1, Len(pattern) - 1), id)
        ELSE id = pattern

\* the sequences a query with ORDER BY modified_at DESC may return: every
\* arrangement of the rows that is non-increasing in modified_at
OrderByModifiedDesc(rows) ==
    LET n == Cardinality(rows)
    IN  {s \in [1..n -> rows] :
            /\ \A i, j \in 1..n : i # j => s[i] # s[j]
            /\ \A i, j \in 1..n : i < j => s[i].modified_at >= s[j].modified_at}

\* row.data = JSON.parse(row.data)
ParsedRow(r) == [r EXCEPT !.data = JSONparse(r.data)]

ParsedSeq(s) == [i \in DOMAIN s |-> ParsedRow(s[i])]

\* JSON_EXTRACT(data, '$.' || field) = value
MatchesFilter(r, fieldFilter) ==
    \/ fieldFilter = <<>>
    \/ LET d == JSONparse(r.data)
       IN  fieldFilter[1] \in DOMAIN d /\ d[fieldFilter[1]] = fieldFilter[2]

searchByIdRows(tbls, recordType, idPattern, fieldFilter) ==
    {r \in RowsOf(tbls, recordType) : Like(r.id, idPattern) /\ MatchesFilter(r, fieldFilter)}

\* the possible results; the query fails ("no such table") on a missing table
searchById(tbls, recordType, idPattern, fieldFilter) ==
    {ParsedSeq(s) : s \in OrderByModifiedDesc(searchByIdRows(tbls, recordType, idPattern, fieldFilter))}

SearchById ==
    \E rt \in RecordTypes, p \in Patterns, snapshotSet \in Snapshots :
      /\ tableExists(tables, rt)
      \* snapshotSet is the caller's params.snapshotSet; searchById takes no such argument
      /\ \E rows \in searchById(tables, rt, p, <<>>) :
           ret' = [op |-> "searchById", recordType |-> rt, pattern |-> p,
                   snapshotSet |-> snapshotSet, rows |-> rows]
      /\ UNCHANGED <<now, snapshotsets, tables, nextVersion, savelog, nops, runVars, browserVars, concVars, flatVars, ctxVars>>

(* -------------------------- snapshot manager --------------------------- *)
\* SELECT snapshotset as id, created_at as createdAt ... ORDER BY created_at DESC
listSnapshots(snaps) ==
    LET n == Cardinality(snaps)
    IN  {[i \in 1..n |-> [id |-> s[i].snapshotset, createdAt |-> s[i].created_at]] :
            s \in {q \in [1..n -> snaps] :
                     /\ \A i, j \in 1..n : i # j => q[i] # q[j]
                     /\ \A i, j \in 1..n : i < j => q[i].created_at >= q[j].created_at}}

ListSnapshots ==
    /\ \E l \in listSnapshots(snapshotsets) : ret' = [op |-> "listSnapshots", list |-> l]
    /\ UNCHANGED <<now, snapshotsets, tables, nextVersion, savelog, nops, runVars, browserVars, concVars, flatVars, ctxVars>>

\* INSERT INTO snapshotsets ... ON CONFLICT (snapshotset) DO NOTHING
InsertSnapshotIfAbsent(snaps, s, createdAt) ==
    IF snapshotExists(snaps, s) THEN snaps
    ELSE snaps \cup {[snapshotset |-> s, created_at |-> createdAt, modified_at |-> createdAt]}

CreateSnapshot ==
    \E name \in SnapshotNames :
      /\ nops < MaxSnapOps
      /\ snapshotsets' = InsertSnapshotIfAbsent(snapshotsets, name, now)
      /\ ret' = [op |-> "createSnapshot", snapshotId |-> name, result |-> name]
      /\ nops' = nops + 1
      /\ UNCHANGED <<now, tables, nextVersion, savelog, runVars, browserVars, concVars, flatVars, ctxVars>>

\* DELETE FROM <every table with a snapshotset column> WHERE snapshotset = ?
DeleteRowsOf(tbls, s) == [t \in DOMAIN tbls |-> {r \in tbls[t] : r.snapshotset # s}]

\* DELETE FROM snapshotsets WHERE snapshotset = ?
DeleteIndexRow_Keep(snaps, s) == snaps
DeleteIndexRow(snaps, s) == {r \in snaps : r.snapshotset # s}

deleteSnapshot(s) ==
    /\ nops < MaxSnapOps
    /\ tables' = DeleteRowsOf(tables, s)
    /\ snapshotsets' = DeleteIndexRow(snapshotsets, s)
    \* result.changes > 0
    /\ ret' = [op |-> "deleteSnapshot", snapshotId |-> s,
               result |-> (Cardinality(snapshotsets) > Cardinality(snapshotsets')),
               \* history: this call directly follows a successful delete of s
               again |-> (ret.op = "deleteSnapshot" /\ ret.snapshotId = s /\ ret.result)]
    /\ nops' = nops + 1
    /\ UNCHANGED <<now, nextVersion, savelog, runVars, browserVars, concVars, flatVars, ctxVars>>

DeleteSnapshot == \E s \in SnapshotNames : deleteSnapshot(s)

\* <<>> stands for null; the tables that hold no row of the snapshot are left out
exportSnapshot(snaps, tbls, s) ==
    IF ~snapshotExists(snaps, s) THEN <<>>
    ELSE LET meta == CHOOSE r \in snaps : r.snapshotset = s
             names == {t \in DOMAIN tbls : \E r \in tbls[t] : r.snapshotset = s}
         IN  <<[id |-> s, createdAt |-> meta.created_at,
                tables |-> [t \in names |->
                              {ParsedRow(r) : r \in {q \in tbls[t] : q.snapshotset = s}}]]>>

\* INSERT ... ON CONFLICT (id, version) DO UPDATE SET data, modified_at, hash
Upsert(rows, rec, s) ==
    IF \E r \in rows : r.id = rec.id /\ r.version = rec.version
        THEN {IF r.id = rec.id /\ r.version = rec.version
                 THEN [r EXCEPT !.data = JSONstringify(rec.data),
                                !.modified_at = rec.modified_at,
                                !.hash = rec.hash]
                 ELSE r : r \in rows}
        ELSE rows \cup {[rec EXCEPT !.snapshotset = s, !.data = JSONstringify(rec.data)]}

RECURSIVE UpsertAll(_, _, _)
UpsertAll(rows, recs, s) ==
    IF recs = {} THEN rows
    ELSE LET rec == CHOOSE r \in recs : TRUE
         IN  UpsertAll(Upsert(rows, rec, s), recs \ {rec}, s)

\* the record tables after importSnapshot(s, data)
ImportTables(tbls, s, data) ==
    [t \in (DOMAIN tbls) \cup (DOMAIN data.tables) |->
        IF t \in DOMAIN data.tables
            THEN UpsertAll(RowsOf(tbls, t), data.tables[t], s)
            ELSE tbls[t]]

\* importSnapshot(target, exportSnapshot(source)): the exported document is
\* taken from this store; a null export is "Invalid snapshot data format"
importSnapshot(target, source) ==
    LET exported == exportSnapshot(snapshotsets, tables, source)
    IN  /\ nops < MaxSnapOps
        /\ nops' = nops + 1
        /\ IF exported = <<>>
              THEN /\ ret' = [op |-> "importSnapshot", snapshotId |-> target, source |-> source,
                              fresh |-> ~snapshotExists(snapshotsets, target),
                              result |-> FALSE]
                   /\ UNCHANGED <<snapshotsets, tables>>
              ELSE /\ snapshotsets' =
                          InsertSnapshotIfAbsent(snapshotsets, target, exported[1].createdAt)
                   /\ tables' = ImportTables(tables, target, exported[1])
                   /\ ret' = [op |-> "importSnapshot", snapshotId |-> target, source |-> source,
                              fresh |-> ~snapshotExists(snapshotsets, target),
                              result |-> TRUE]
        /\ UNCHANGED <<now, nextVersion, savelog, runVars, browserVars, concVars, flatVars, ctxVars>>

ImportSnapshot == \E t \in SnapshotNames, s \in SnapshotNames : importSnapshot(t, s)

(* -------------------------- compareSnapshots --------------------------- *)
IdsOf(rows) == {r.id : r \in rows}

\* new Map(rows.map(r => [r.id, r])): one row per id, the last one of the
\* array; the array's order among the versions of an id is the query's
RecordMaps(rows) == {m \in [IdsOf(rows) -> rows] : \A i \in IdsOf(rows) : m[i].id = i}

TablesOf(exported) == IF exported = <<>> THEN {} ELSE DOMAIN exported[1].tables

ExportedRows(exported, t) ==
    IF t \in TablesOf(exported) THEN exported[1].tables[t] ELSE {}

\* JSON.stringify(record): the text of a whole exported row, its id, version,
\* snapshotset and dates included
RecordText_DataOnly(record) == record.data
RecordText(record) == JSONstringify(record)

\* the difference lists of one table, for one choice of the two maps
TableDiff_NoCompare(m1, m2) ==
    [onlyIn1 |-> (DOMAIN m1) \ (DOMAIN m2),
     onlyIn2 |-> (DOMAIN m2) \ (DOMAIN m1),
     inBothButDifferent |-> {}]
TableDiff(m1, m2) ==
    [onlyIn1 |-> (DOMAIN m1) \ (DOMAIN m2),
     onlyIn2 |-> (DOMAIN m2) \ (DOMAIN m1),
     inBothButDifferent |->
        {i \in (DOMAIN m1) \cap (DOMAIN m2) : RecordText(m1[i]) # RecordText(m2[i])}]

\* the difference lists table t can get, one for each choice of the two maps
TableDiffs(e1, e2, t) ==
    {TableDiff(m1, m2) : m1 \in RecordMaps(ExportedRows(e1, t)),
                         m2 \in RecordMaps(ExportedRows(e2, t))}

NoDiff(d) == d.onlyIn1 = {} /\ d.onlyIn2 = {} /\ d.inBothButDifferent = {}

\* the possible values of comparison.differences: <<>> stands for the throw
\* "One or both snapshots don't exist"
compareSnapshots(snaps, tbls, s1, s2) ==
    LET e1 == exportSnapshot(snaps, tbls, s1)
        e2 == exportSnapshot(snaps, tbls, s2)
        allTables == TablesOf(e1) \cup TablesOf(e2)
    IN  IF e1 = <<>> \/ e2 = <<>> THEN {<<>>}
        ELSE {<<[t \in {u \in allTables : ~NoDiff(d[u])} |-> d[t]]>> :
                d \in {f \in [allTables -> UNION {TableDiffs(e1, e2, t) : t \in allTables}] :
                         \A t \in allTables : f[t] \in TableDiffs(e1, e2, t)}}

CompareSnapshots ==
    \E s1 \in SnapshotNames, s2 \in SnapshotNames :
      /\ s1 # s2
      /\ \E c \in compareSnapshots(snapshotsets, tables, s1, s2) :
           ret' = [op |-> "compareSnapshots", id1 |-> s1, id2 |-> s2, differences |-> c]
      /\ UNCHANGED <<now, snapshotsets, tables, nextVersion, savelog, nops, runVars, browserVars, concVars, flatVars, ctxVars>>

(* -------------------------- duplicateSnapshot -------------------------- *)
\* duplicateSnapshot(source, target): export then import; newId is <<>> for
\* null. The import's catch (result false) needs a failing statement, which
\* the statements of the import do not produce here.
duplicateSnapshot(sourceSnapshotId, targetSnapshotId) ==
    LET newSnapshotId == targetSnapshotId
        exportedData == exportSnapshot(snapshotsets, tables, sourceSnapshotId)
    IN  /\ nops < MaxSnapOps
        /\ nops' = nops + 1
        /\ IF exportedData = <<>>
              THEN /\ ret' = [op |-> "duplicateSnapshot", source |-> sourceSnapshotId,
                              target |-> targetSnapshotId, newId |-> <<>>]
                   /\ UNCHANGED <<snapshotsets, tables>>
              ELSE /\ snapshotsets' = InsertSnapshotIfAbsent(snapshotsets, newSnapshotId,
                                                             exportedData[1].createdAt)
                   /\ tables' = ImportTables(tables, newSnapshotId, exportedData[1])
                   /\ ret' = [op |-> "duplicateSnapshot", source |-> sourceSnapshotId,
                              target |-> targetSnapshotId, newId |-> <<newSnapshotId>>]
        /\ UNCHANGED <<now, nextVersion, savelog, runVars, browserVars, concVars, flatVars, ctxVars>>

DuplicateSnapshot ==
    \E s \in SnapshotNames, t \in SnapshotNames : duplicateSnapshot(s, t)


\* snapshot documents handed to importSnapshot that were not exported from
\* this store as it is now: one post record, as exportSnapshot writes it
ImportedDocuments ==
    {[id |-> "S1", createdAt |-> 0,
      tables |-> [t \in {"post"} |->
                    {[id |-> i, snapshotset |-> "S1", version |-> v, data |-> WithHash(d, createHash(d, <<>>)),
                      created_at |-> 0, modified_at |-> 0, hash |-> createHash(d, <<>>)]}]] :
        i \in PostIds, v \in 1..MaxSaves, d \in Payloads}

\* importSnapshot(target, data) with a document given by the caller
ImportSnapshotData ==
    \E target \in SnapshotNames, data \in ImportedDocuments :
      /\ nops < MaxSnapOps
      /\ nops' = nops + 1
      /\ snapshotsets' = InsertSnapshotIfAbsent(snapshotsets, target, data.createdAt)
      /\ tables' = ImportTables(tables, target, data)
      /\ ret' = [op |-> "importSnapshot.data", snapshotId |-> target, data |-> data,
                 result |-> TRUE]
      /\ UNCHANGED <<now, nextVersion, savelog, runVars, browserVars, concVars, flatVars, ctxVars>>
(* ------------------- two runs of one save sequence -------------------- *)
\* the (recordType, id, snapshotset) both runs save to
RunRecordType == "post"
RunId == <<"abc", "1">>
RunSnapshot == "S1"

\* a run's store at the shared clock reading
RunStore(tbls) ==
    [tables |-> tbls, snapshotsets |-> {}, nextVersion |-> Len(runlog), now |-> now]

\* one save call made in both runs at the same clock reading; the payloads of
\* the two runs differ in at most one call of the sequence; each run resolves
\* "ORDER BY modified_at DESC LIMIT 1" on its own
SaveBoth ==
    \E dA \in Payloads, dB \in Payloads :
      /\ Len(runlog) < MaxRunSaves
      /\ dA # dB => \A n \in 1..Len(runlog) : runlog[n].dataA = runlog[n].dataB
      /\ \E oA \in saveResults(RunStore(runA), RunRecordType, RunId, dA, RunSnapshot),
            oB \in saveResults(RunStore(runB), RunRecordType, RunId, dB, RunSnapshot) :
           /\ runA' = oA.st.tables
           /\ runB' = oB.st.tables
           /\ runlog' = Append(runlog,
                  [dataA |-> dA, dataB |-> dB,
                   hashA |-> oA.row.hash, hashB |-> oB.row.hash, at |-> now])
      /\ UNCHANGED <<snapshotsets, tables, nextVersion, now, savelog, ret, nops, browserVars, concVars, flatVars, ctxVars>>

\* time passes between two calls of the runs
TickRuns ==
    /\ now < MaxTime
    /\ now' = now + 1
    /\ UNCHANGED <<snapshotsets, tables, nextVersion, savelog, ret, nops, runVars, browserVars, concVars, flatVars, ctxVars>>

(* ------------------- concurrent saves on one store -------------------- *)
\* the save saveCalls in flight; all use the one connection of the store
Callers == 1..NumCallers

NotInTransaction == "SQLITE_ERROR: cannot start a transaction within a transaction"

\* a call that has not been made yet
IdleCall ==
    [pc |-> "idle", data |-> <<>>, version |-> 0, createdAt |-> 0,
     previous |-> NoRow, row |-> NoRow, order |-> 0, error |-> "none"]

\* the number of saveCalls that have inserted their row
Inserted == Cardinality({c \in Callers : saveCalls[c].order > 0})

\* save is called: nanoid() and new Date() are read before the first await
SaveCall ==
    \E c \in Callers, d \in Payloads :
      /\ saveCalls[c].pc = "idle"
      /\ saveCalls' = [saveCalls EXCEPT ![c] = [@ EXCEPT !.pc = "begin", !.data = d,
                                           !.version = nextVersion + 1,
                                           !.createdAt = now]]
      /\ nextVersion' = nextVersion + 1
      /\ UNCHANGED <<now, snapshotsets, tables, inTransaction, deleteOp,
                     savelog, ret, nops, runVars, browserVars, flatVars, ctxVars>>

\* await db.exec("BEGIN TRANSACTION"), outside the try block: on a
\* connection that already has a transaction open the statement fails and
\* the call rejects
SaveBegin ==
    \E c \in Callers :
      /\ saveCalls[c].pc = "begin"
      /\ IF inTransaction
            THEN /\ saveCalls' = [saveCalls EXCEPT ![c] = [@ EXCEPT !.pc = "failed",
                                                         !.error = NotInTransaction]]
                 /\ UNCHANGED inTransaction
            ELSE /\ saveCalls' = [saveCalls EXCEPT ![c].pc = "snapshot"]
                 /\ inTransaction' = TRUE
      /\ UNCHANGED <<storeVars, deleteOp, savelog, ret, nops, runVars, browserVars, flatVars, ctxVars>>

\* SELECT 1 FROM snapshotsets ...; INSERT INTO snapshotsets when absent
SaveEnsureSnapshot ==
    \E c \in Callers :
      /\ saveCalls[c].pc = "snapshot"
      /\ snapshotsets' =
            IF snapshotExists(snapshotsets, RunSnapshot) THEN snapshotsets
            ELSE snapshotsets \cup {[snapshotset |-> RunSnapshot,
                                     created_at |-> saveCalls[c].createdAt,
                                     modified_at |-> saveCalls[c].createdAt]}
      /\ saveCalls' = [saveCalls EXCEPT ![c].pc = "table"]
      /\ UNCHANGED <<now, tables, nextVersion, inTransaction, deleteOp,
                     savelog, ret, nops, runVars, browserVars, flatVars, ctxVars>>

\* await this.ensureTableExists(tableName)
SaveEnsureTable ==
    \E c \in Callers :
      /\ saveCalls[c].pc = "table"
      /\ tables' = ensureTableExists(tables, RunRecordType)
      /\ saveCalls' = [saveCalls EXCEPT ![c].pc = "previous"]
      /\ UNCHANGED <<now, snapshotsets, nextVersion, inTransaction, deleteOp,
                     savelog, ret, nops, runVars, browserVars, flatVars, ctxVars>>

\* SELECT data FROM <table> WHERE id = ? ORDER BY modified_at DESC LIMIT 1
SaveSelectPrevious ==
    \E c \in Callers :
      /\ saveCalls[c].pc = "previous"
      /\ LET cand == SelectLatest(tables, RunRecordType, RunId)
         IN  \E previous \in (IF cand = {} THEN {NoRow} ELSE {<<r>> : r \in cand}) :
                saveCalls' = [saveCalls EXCEPT ![c] = [@ EXCEPT !.pc = "insert",
                                                     !.previous = previous]]
      /\ UNCHANGED <<storeVars, inTransaction, deleteOp, savelog, ret, nops, runVars, browserVars, flatVars, ctxVars>>

\* the hash is computed and the row inserted
SaveInsert ==
    \E c \in Callers :
      /\ saveCalls[c].pc = "insert"
      /\ LET row == NewRow(RunId, saveCalls[c].data, RunSnapshot, saveCalls[c].version,
                           saveCalls[c].createdAt, saveCalls[c].previous)
         IN  /\ tables' = [tables EXCEPT ![RunRecordType] = @ \cup {row}]
             /\ saveCalls' = [saveCalls EXCEPT ![c] = [@ EXCEPT !.pc = "commit",
                                                  !.row = <<row>>,
                                                  !.order = Inserted + 1]]
      /\ UNCHANGED <<now, snapshotsets, nextVersion, inTransaction, deleteOp,
                     savelog, ret, nops, runVars, browserVars, flatVars, ctxVars>>

\* await db.exec("COMMIT"); return { id, version, hash }
SaveCommit ==
    \E c \in Callers :
      /\ saveCalls[c].pc = "commit"
      /\ inTransaction' = FALSE
      /\ saveCalls' = [saveCalls EXCEPT ![c].pc = "done"]
      /\ UNCHANGED <<storeVars, deleteOp, savelog, ret, nops, runVars, browserVars, flatVars, ctxVars>>

\* time passes between two statements
TickCalls ==
    /\ now < MaxTime
    /\ now' = now + 1
    /\ UNCHANGED <<snapshotsets, tables, nextVersion, concVars,
                   savelog, ret, nops, runVars, browserVars, flatVars, ctxVars>>

(* --------------------- the remote conversation data -------------------- *)
\* posts the network serves: a tree A -> B -> {C, D}; X and Y, whose records
\* name each other as reply parent; Z, whose record names itself; O, whose
\* reply parent G is no longer served, and its reply P
PostA == <<"amy", "A">>
PostB == <<"bob", "B">>
PostC == <<"cat", "C">>
PostD == <<"dan", "D">>
PostX == <<"xen", "X">>
PostY == <<"yan", "Y">>
PostZ == <<"zoe", "Z">>
PostO == <<"oli", "O">>
PostP == <<"pat", "P">>
PostG == <<"gus", "G">>
ThreadPosts == {PostA, PostB, PostC, PostD, PostX, PostY, PostZ, PostO, PostP}

\* "" where a uri is expected, and an undefined uri
NoUri == <<>>

ReplyRef(parent, root) == <<[parent |-> parent, root |-> root]>>

\* record.reply of a post: <<>> when the record has none
RecordReply(p) ==
    CASE p = PostB -> ReplyRef(PostA, PostA)
      [] p = PostC -> ReplyRef(PostB, PostA)
      [] p = PostD -> ReplyRef(PostB, PostA)
      [] p = PostX -> ReplyRef(PostY, PostX)
      [] p = PostY -> ReplyRef(PostX, PostX)
      [] p = PostZ -> ReplyRef(PostZ, PostZ)
      [] p = PostO -> ReplyRef(PostG, PostG)
      [] p = PostP -> ReplyRef(PostO, PostG)
      [] OTHER -> <<>>

\* the app.bsky.feed.post record of a post
PostRecord(p) == [text |-> p[2], reply |-> RecordReply(p)]

\* the profile of a post's author
AuthorProfile(did) == [did |-> did, handle |-> did, avatar |-> "avatar"]

\* getPostThread: the parent shown above a post (<<>> when none is shown)
ViewParent(p) ==
    CASE p = PostB -> <<PostA>>
      [] p = PostC -> <<PostB>>
      [] p = PostD -> <<PostB>>
      [] p = PostY -> <<PostX>>
      [] p = PostP -> <<PostO>>
      [] OTHER -> <<>>

\* getPostThread: the replies shown under a post, in the order served
ViewReplies(p) ==
    CASE p = PostA -> <<PostB>>
      [] p = PostB -> <<PostC, PostD>>
      [] p = PostX -> <<PostY>>
      [] p = PostO -> <<PostP>>
      [] OTHER -> <<>>

(* --------------------------- ExtractPostView --------------------------- *)
NoError == "none"
TypeError == "TypeError: Cannot read properties of undefined (reading 'debugOutput')"

\* ExtractPostView(threaddata, params): its first statement reads
\* params.debugOutput, so a call without params (<<>>) throws; otherwise the
\* strict view of the thread served, named here by its focus post and
\* spelled out by ViewParent and ViewReplies
ExtractPostView_NoThrow(threaddata, params) ==
    [error |-> NoError, view |-> <<threaddata>>]
ExtractPostView(threaddata, params) ==
    IF params = <<>> THEN [error |-> TypeError, view |-> <<>>]
    ELSE [error |-> NoError, view |-> <<threaddata>>]

(* ------------------------ ApiWrapper: GetThread ------------------------ *)
\* new RequestParams(): the parameters a call gets when none are passed
DefaultParams == [snapshotSet |-> "", dryRun |-> FALSE]

\* the parameters of the requests made
RequestParams == {[snapshotSet |-> "S1", dryRun |-> FALSE]}

RecorderDid == "Helios"

\* new EntryDB(id, "", Date.now(), recorderDid, id, tableName)
EntryDB(id, tableName, t) ==
    [project |-> "", linkedTo |-> <<>>, recordedAt |-> t, recorder |-> RecorderDid,
     record |-> id, identity |-> id, recordType |-> tableName]

\* Store(tableName, id, data, requestParams), described by its arguments
StoreCall(tableName, id, data, params) ==
    [tableName |-> tableName, id |-> id, data |-> data, params |-> params]

\* the ThreadPostViewDB written for a post
ThreadData(post, direction, root_uri) ==
    [post |-> post,
     parent |-> ViewParent(post),
     replies |-> IF direction \in {"root", "down"} THEN ViewReplies(post) ELSE <<>>,
     is_root |-> (direction = "root"),
     root_uri |-> root_uri]

RECURSIVE StorePostRecurse(_, _, _, _)
RECURSIVE StoreReplies(_, _)

\* the Store calls of StorePostRecurse(post, direction, root_uri, params), in
\* order; the recursive calls pass no params
StorePostRecurse(post, direction, root_uri, params) ==
    <<StoreCall("post", post, PostRecord(post), params)>>
    \o (IF ViewParent(post) # <<>> /\ direction \in {"root", "up"}
           THEN StorePostRecurse(ViewParent(post)[1], "up", root_uri, DefaultParams)
           ELSE <<>>)
    \o (IF direction \in {"root", "down"}
           THEN StoreReplies(ViewReplies(post), root_uri)
           ELSE <<>>)
    \o <<StoreCall("profile", <<post[1]>>, AuthorProfile(post[1]), params),
         StoreCall("thread_post_view", post, ThreadData(post, direction, root_uri), params)>>

\* for (const rep of post.replies) StorePostRecurse(rep, "down", root_uri)
StoreReplies(reps, root_uri) ==
    IF reps = <<>> THEN <<>>
    ELSE StorePostRecurse(Head(reps), "down", root_uri, DefaultParams)
            \o StoreReplies(Tail(reps), root_uri)

\* the root uri GetThread passes on: the root named by the record of the
\* focus's parent ("" when that record has no reply), else the focus itself
RootUriOf(uri) ==
    IF ViewParent(uri) # <<>>
        THEN LET reply == RecordReply(ViewParent(uri)[1])
             IN  IF reply = <<>> THEN NoUri ELSE reply[1].root
        ELSE uri

\* the clock reading after a save: a save is a transaction of several
\* awaited statements, here taking one millisecond
AfterSave(st) == [st EXCEPT !.now = @ + 1]

\* Store: the record, then its provenance entry under the same id
Store(st, call) ==
    IF call.params.dryRun THEN {st}
    ELSE UNION {
           {AfterSave(o2.st) :
               o2 \in saveResults(AfterSave(o1.st), "entry", call.id,
                                  EntryDB(call.id, call.tableName, st.now),
                                  call.params.snapshotSet)} :
           o1 \in saveResults(st, call.tableName, call.id, call.data,
                              call.params.snapshotSet)}

RECURSIVE StoreAll(_, _)
\* the stores a sequence of Store calls may leave
StoreAll(sts, calls) ==
    IF calls = <<>> THEN sts
    ELSE StoreAll(UNION {Store(st, Head(calls)) : st \in sts}, Tail(calls))

\* getThread(aturi, bskyClient, params) of the utilities: the thread served
\* for aturi, extracted with the caller's params
getThread(aturi, params) == ExtractPostView(aturi, <<params>>)

\* a user of the library stores a thread it has fetched:
\* StorePostRecurse(getThread(uri, client, params), "root", root_uri, params)
storeThread(uri, params) ==
    /\ nthread < MaxThreadOps
    /\ getThread(uri, params).error = NoError
    /\ \E st \in StoreAll({StoreState},
                          StorePostRecurse(getThread(uri, params).view[1], "root",
                                           RootUriOf(uri), params)) :
         /\ tables' = st.tables
         /\ snapshotsets' = st.snapshotsets
         /\ nextVersion' = st.nextVersion
         /\ now' = st.now
    /\ ret' = [op |-> "StorePostRecurse", aturl |-> uri, dryRun |-> params.dryRun]
    /\ nthread' = nthread + 1
    /\ UNCHANGED <<savelog, nops, runVars, context, concVars, flatVars, ctxVars>>

StoreThread == \E uri \in ThreadPosts, params \in RequestParams : storeThread(uri, params)

\* the parameters of a request made with --dry-run
DryRunParams == {[snapshotSet |-> "S1", dryRun |-> TRUE]}

StoreThreadDryRun == \E uri \in ThreadPosts, params \in DryRunParams : storeThread(uri, params)

\* ApiWrapper.GetThread(uri, params): the store it may leave and the error it
\* throws; it calls ExtractPostView(res.data.thread) without params
awGetThread(st, uri, params) ==
    LET postView == ExtractPostView(uri, <<>>)
    IN  IF postView.error # NoError
            THEN {[st |-> st, error |-> postView.error]}
        ELSE IF postView.view = <<>>
            THEN {[st |-> st, error |-> NoError]}
        ELSE {[st |-> stored, error |-> NoError] :
                 stored \in StoreAll({st}, StorePostRecurse(postView.view[1], "root",
                                                            RootUriOf(uri), params))}

AwGetThread ==
    \E uri \in ThreadPosts, params \in RequestParams :
      /\ nthread < MaxThreadOps
      /\ \E f \in awGetThread(StoreState, uri, params) :
           /\ tables' = f.st.tables
           /\ snapshotsets' = f.st.snapshotsets
           /\ nextVersion' = f.st.nextVersion
           /\ now' = f.st.now
           /\ ret' = [op |-> "ApiWrapper.GetThread", aturl |-> uri, error |-> f.error]
      /\ nthread' = nthread + 1
      /\ UNCHANGED <<savelog, nops, runVars, context, concVars, flatVars, ctxVars>>
(* ----------------------- ApiWrapper: GetPost --------------------------- *)
\* the parameters of the record requests made: fillDetails is false
PostParams == {[snapshotSet |-> s, dryRun |-> FALSE] : s \in Snapshots}

\* GetPost(uri, params): the record served for uri is stored with Store,
\* which saves the record and then its provenance entry
GetPost ==
    \E uri \in PostIds, data \in Payloads, params \in PostParams :
      /\ nops < MaxStores
      /\ \E st \in Store(StoreState, StoreCall("post", uri, data, params)) :
           /\ tables' = st.tables
           /\ snapshotsets' = st.snapshotsets
           /\ nextVersion' = st.nextVersion
           /\ now' = st.now
      /\ ret' = [op |-> "GetPost", id |-> uri, snapshotSet |-> params.snapshotSet]
      /\ nops' = nops + 1
      /\ UNCHANGED <<savelog, runVars, browserVars, concVars, flatVars, ctxVars>>

(* ------------------------------ fetchEntry ----------------------------- *)
\* new Entry(entrydb, data): the metadata of the provenance entry and the
\* record's data
CreateEntry(entryData, data) ==
    [linkedTo |-> entryData.linkedTo, recordedAt |-> entryData.recordedAt,
     recorder |-> entryData.recorder, identity |-> entryData.identity,
     recordType |-> entryData.recordType, record |-> data]

\* SELECT * FROM entry WHERE id = ? AND snapshotset = ? (the rows LIMIT 1
\* may return); the query throws when the entry table does not exist
EntryRowsFor(tbls, row) ==
    {e \in RowsOf(tbls, "entry") : e.id = row.id /\ e.snapshotset = row.snapshotset}

\* the Entry built for a resolved record row: <<>> (undefined) when no
\* provenance row is found or the query throws
EntryForRow(tbls, row) ==
    IF EntryRowsFor(tbls, row) = {} THEN {<<>>}
    ELSE {<<CreateEntry(JSONparse(e.data), JSONparse(row.data))>> :
             e \in EntryRowsFor(tbls, row)}

\* what fetchEntry(recordType, id) without a version may do: the record row
\* it resolves (NoRow if none) and the value it returns (<<>> for undefined)
fetchEntry(tbls, recordType, id) ==
    IF ~tableExists(tbls, recordType) THEN {[row |-> NoRow, result |-> <<>>]}
    ELSE LET cand == SelectLatest(tbls, recordType, id)
         IN  IF cand = {} THEN {[row |-> NoRow, result |-> <<>>]}
             ELSE UNION {{[row |-> <<r>>, result |-> e] : e \in EntryForRow(tbls, r)} :
                            r \in cand}

FetchEntry ==
    \E rt \in RecordTypes, id \in PostIds :
      \E f \in fetchEntry(tables, rt, id) :
        /\ ret' = [op |-> "fetchEntry", recordType |-> rt, id |-> id,
                   row |-> f.row, result |-> f.result]
        /\ UNCHANGED <<storeVars, savelog, nops, runVars, browserVars, concVars, flatVars, ctxVars>>



(* ------------------------ returnAllLatestEntries ----------------------- *)
\* the owner arguments of the requests made: a did with atID true, or an
\* exact id with atID false (both written as path segments)
OwnerArgs ==
    {[did |-> <<d>>, atID |-> TRUE] : d \in Dids}
        \cup {[did |-> i, atID |-> FALSE] : i \in PostIds}

\* const pattern = atID ? `at://${did}/%` : did
OwnerPattern(did, atID) == IF atID THEN did \o <<"%">> ELSE did

\* the orders in which a query may return the members of a set
Orders(S) ==
    {s \in [1..Cardinality(S) -> S] :
        \A i, j \in 1..Cardinality(S) : i # j => s[i] # s[j]}

RECURSIVE PushEntries(_, _)
\* entries.push(entry) for the ids that have a record row and an entry row
PushEntries(order, entryOf) ==
    IF order = <<>> THEN <<>>
    ELSE entryOf[Head(order)] \o PushEntries(Tail(order), entryOf)

\* the lists returnAllLatestEntries(recordType, did, atID) may return: the
\* ids matching the pattern are grouped, for each the row of its greatest
\* modified_at is read and joined with the entry row of that row's id and
\* snapshot; an id without such an entry row is skipped, and the query on a
\* missing entry table throws into the catch, which returns []
returnAllLatestEntries(tbls, recordType, did, atID) ==
    LET pattern == OwnerPattern(did, atID)
        ids == IdsOf(searchByIdRows(tbls, recordType, pattern, <<>>))
    IN  IF ~tableExists(tbls, recordType) THEN {<<>>}
        ELSE IF ids = {} THEN {<<>>}
        ELSE IF ~tableExists(tbls, "entry") THEN {<<>>}
        ELSE {PushEntries(order, entryOf) :
                 order \in Orders(ids),
                 entryOf \in {f \in [ids -> UNION {EntryForRow(tbls, r) :
                                                      r \in RowsOf(tbls, recordType)}] :
                                 \A i \in ids :
                                    \E recordRow \in SelectLatest(tbls, recordType, i) :
                                       f[i] \in EntryForRow(tbls, recordRow)}}

ReturnAllLatestEntries ==
    \E rt \in RecordTypes, o \in OwnerArgs :
      \E entries \in returnAllLatestEntries(tables, rt, o.did, o.atID) :
        /\ ret' = [op |-> "returnAllLatestEntries", recordType |-> rt,
                   pattern |-> OwnerPattern(o.did, o.atID), entries |-> entries]
        /\ UNCHANGED <<storeVars, savelog, nops, runVars, browserVars, concVars, flatVars, ctxVars>>

(* ------------------- records of several kinds under one id ------------- *)
\* the kinds ApiWrapper stores under the DID of an account
DidKinds == {"profile", "repo_description"}

\* GetProfile(did, params) and GetRepoDescription(did, params): the record
\* served is stored with Store under the DID
StoreDidRecord ==
    \E kind \in DidKinds, did \in Dids, data \in Payloads, params \in PostParams :
      /\ nops < MaxStores
      /\ \E st \in Store(StoreState, StoreCall(kind, <<did>>, data, params)) :
           /\ tables' = st.tables
           /\ snapshotsets' = st.snapshotsets
           /\ nextVersion' = st.nextVersion
           /\ now' = st.now
      /\ ret' = [op |-> "StoreDidRecord", recordType |-> kind, id |-> <<did>>,
                 snapshotSet |-> params.snapshotSet]
      /\ nops' = nops + 1
      /\ UNCHANGED <<savelog, runVars, browserVars, concVars, flatVars, ctxVars>>

\* fetchEntry(kind, did)
FetchDidEntry ==
    \E kind \in DidKinds, did \in Dids :
      \E f \in fetchEntry(tables, kind, <<did>>) :
        /\ ret' = [op |-> "fetchEntry.did", recordType |-> kind, id |-> <<did>>,
                   row |-> f.row, result |-> f.result]
        /\ UNCHANGED <<storeVars, savelog, nops, runVars, browserVars, concVars, flatVars, ctxVars>>
(* --------------------- returnAllLatestEntriesForThread ----------------- *)
RECURSIVE RowidOrder(_)
\* a table scan without ORDER BY: the rows in insertion order (versions are
\* numbered in the order the rows were inserted)
RowidOrder(rows) ==
    IF rows = {} THEN <<>>
    ELSE LET first == CHOOSE r \in rows : \A q \in rows : r.version <= q.version
         IN  <<first>> \o RowidOrder(rows \ {first})

\* SELECT id FROM thread_post_view WHERE json_extract(data, '$.root_uri') = ?
ThreadPostIds(tbls, root_aturl) ==
    LET rows == RowidOrder({r \in RowsOf(tbls, "thread_post_view") :
                               JSONparse(r.data).root_uri = root_aturl})
    IN  [i \in DOMAIN rows |-> rows[i].id]

\* the entries one post id may contribute: its latest post row joined with
\* an entry row of the same id and snapshot; none when either is missing
EntriesOf(tbls, id) ==
    {[identity |-> JSONparse(entryRow.data).identity, record |-> JSONparse(postRow.data)] :
        <<postRow, entryRow>> \in
            {pe \in SelectLatest(tbls, "post", id) \X RowsOf(tbls, "entry") :
                pe[2].id = pe[1].id /\ pe[2].snapshotset = pe[1].snapshotset}}

RECURSIVE EntrySeqs(_, _)
\* one entry per selected id, in the order of the ids
EntrySeqs(tbls, ids) ==
    IF ids = <<>> THEN {<<>>}
    ELSE LET heads == EntriesOf(tbls, Head(ids))
             rests == EntrySeqs(tbls, Tail(ids))
         IN  IF heads = {} THEN rests
             ELSE {<<e>> \o rest : e \in heads, rest \in rests}

\* the lists returnAllLatestEntriesForThread(root_aturl) may return
returnAllLatestEntriesForThread(tbls, root_aturl) ==
    IF ~tableExists(tbls, "thread_post_view") THEN {<<>>}
    ELSE EntrySeqs(tbls, ThreadPostIds(tbls, root_aturl))

(* ------------------------ DataBrowser: the cache ----------------------- *)
\* context.threadCache after the first loop: one node per identity, the
\* node's parent reference (<<>> for undefined) and its replies array
NewCache(entries) ==
    [id \in {entries[i].identity : i \in DOMAIN entries} |->
        [parent |-> <<>>, replies |-> <<>>]]

\* entry.record.reply.parent.uri
ParentUri_Root(record) == record.reply[1].root
ParentUri(record) == record.reply[1].parent

\* parent.replies.push(current); current.parent = parent
WireEdge(cache, parent, current) ==
    LET pushed == [cache EXCEPT ![parent].replies = Append(@, current)]
    IN  [pushed EXCEPT ![current].parent = <<parent>>]

(* --------------------------- BuildFocusPost ---------------------------- *)
RECURSIVE UpCalls(_, _, _)
\* the number of nested "up" calls made above node id, counted up to the
\* depth at which the call stack is exhausted
UpCalls(cache, id, depth) ==
    IF depth > StackLimit \/ cache[id].parent = <<>> THEN depth
    ELSE UpCalls(cache, cache[id].parent[1], depth + 1)

\* the "up" recursion from the focus exhausts the call stack
StackOverflow(cache, focus) == UpCalls(cache, focus, 0) > StackLimit

RECURSIVE BuildUp(_, _)
\* dir = "up": the parent's clone without replies, its own parent re-linked
BuildUp(cache, id) ==
    [post |-> id,
     replies |-> <<>>,
     parent |-> IF cache[id].parent = <<>> THEN <<>>
                ELSE <<BuildUp(cache, cache[id].parent[1])>>]

RECURSIVE BuildDown(_, _)
\* dir = "down": the child's clone without parent, its replies cloned in turn
BuildDown(cache, id) ==
    [post |-> id,
     parent |-> <<>>,
     replies |-> [i \in DOMAIN cache[id].replies |-> BuildDown(cache, cache[id].replies[i])]]

\* dir = "root": the focus clone, re-linked upwards and downwards
BuildFocusPost(cache, focus) ==
    [post |-> focus,
     parent |-> IF cache[focus].parent = <<>> THEN <<>>
                ELSE <<BuildUp(cache, cache[focus].parent[1])>>,
     replies |-> [i \in DOMAIN cache[focus].replies |->
                    BuildDown(cache, cache[focus].replies[i])]]


\* the store asked for the entries of a conversation
ReturnAllLatestEntriesForThread ==
    \E root_aturl \in ThreadPosts :
      \E entries \in returnAllLatestEntriesForThread(tables, root_aturl) :
        /\ ret' = [op |-> "returnAllLatestEntriesForThread", root_aturl |-> root_aturl,
                   entries |-> entries]
        /\ UNCHANGED <<storeVars, savelog, nops, runVars, browserVars, concVars, flatVars, ctxVars>>
(* ------------------------ DataBrowser: GetThread ----------------------- *)
\* { field: "is_root", value: true }
IsRootFilter == <<"is_root", TRUE>>

NoSuchTable == "no such table: thread_post_view"
RangeError == "RangeError: Maximum call stack size exceeded"

\* a run of GetThread so far: the store, the context, the value returned,
\* the error thrown, the calls made to ApiWrapper.GetThread, the forced
\* recursive calls made, and the graph of the cache before and after the
\* call of BuildFocusPost (<<>> when it was not called)
Run(st, ctx, result, error, fetches, forced) ==
    [st |-> st, ctx |-> ctx, result |-> result, error |-> error,
     fetches |-> fetches, forced |-> forced, graphs |-> <<>>]

\* map.set(key, value)
MapSet(map, key, value) ==
    [k \in (DOMAIN map) \cup {key} |-> IF k = key THEN value ELSE map[k]]

\* the run of the caller once the forced call h has returned or thrown: the
\* store and the shared context are as h left them
AfterForcedRun(g, h) ==
    [g EXCEPT !.st = h.st, !.ctx = h.ctx, !.error = h.error,
              !.fetches = @ + h.fetches, !.forced = @ + 1 + h.forced]

(* ------------- BuildFocusPost on the objects of the cache -------------- *)
\* The nodes of the cache and the clones BuildFocusPost makes are objects,
\* their replies are arrays: an object is named CacheRef(identity) or
\* CloneRef(n), an array by the cache node it was made for or ArrayRef(n).
CacheRef(id) == <<"cache", id>>
CloneRef(n) == <<"clone", n>>
ArrayRef(n) == <<"array", n>>

\* the objects of a wired cache: obj holds post, parent (<<>> for undefined)
\* and the replies array of each object, arr the elements of each array
HeapOf(cache) ==
    LET refs == {CacheRef(id) : id \in DOMAIN cache}
    IN  [obj |-> [r \in refs |->
                    [post |-> r[2],
                     parent |-> IF cache[r[2]].parent = <<>> THEN <<>>
                                ELSE <<CacheRef(cache[r[2]].parent[1])>>,
                     replies |-> r]],
         arr |-> [r \in refs |->
                    [i \in DOMAIN cache[r[2]].replies |-> CacheRef(cache[r[2]].replies[i])]],
         next |-> 1]

\* { ...atPost, ...fields }: a new object with the given fields
NewObject(h, fields) ==
    [h EXCEPT !.obj = MapSet(@, CloneRef(h.next), fields), !.next = @ + 1]

\* []: a new empty array
NewArray(h) ==
    [h EXCEPT !.arr = MapSet(@, ArrayRef(h.next), <<>>), !.next = @ + 1]

RECURSIVE HeapUp(_, _, _)
\* dir = "up": parentClone = {...atPost, replies: []}; lastAt.parent =
\* parentClone; then the same for parentClone.parent
HeapUp(h, atPost, lastAt) ==
    LET replies == ArrayRef(h.next)
        h1 == NewArray(h)
        parentClone == CloneRef(h1.next)
        h2 == NewObject(h1, [h1.obj[atPost] EXCEPT !.replies = replies])
        h3 == [h2 EXCEPT !.obj[lastAt].parent = <<parentClone>>]
    IN  IF h3.obj[parentClone].parent # <<>>
            THEN HeapUp(h3, h3.obj[parentClone].parent[1], parentClone)
            ELSE h3

RECURSIVE HeapDown(_, _, _)
RECURSIVE HeapDownEach(_, _, _, _)
\* for (let child of replies) BuildFocusPost(child, lastAt, "down"): the
\* array is read as it is when the loop reaches index i
HeapDownEach(h, replies, i, lastAt) ==
    IF i > Len(h.arr[replies]) THEN h
    ELSE HeapDownEach(HeapDown(h, h.arr[replies][i], lastAt), replies, i + 1, lastAt)

\* dir = "down" with the statement atPost.replies = [] in force
HeapDown_ClearsInput(h, atPost, lastAt) ==
    LET own == ArrayRef(h.next)
        h1 == NewArray(h)
        childClone == CloneRef(h1.next)
        h2 == NewObject(h1, [h1.obj[atPost] EXCEPT !.parent = <<>>, !.replies = own])
        h3 == [h2 EXCEPT !.arr[h2.obj[lastAt].replies] = Append(@, childClone)]
        replies == h3.obj[atPost].replies
        emptied == ArrayRef(h3.next)
        h4 == [NewArray(h3) EXCEPT !.obj[atPost].replies = emptied]
    IN  HeapDownEach(h4, replies, 1, childClone)
\* dir = "down": childClone = {...atPost, parent: undefined, replies: []};
\* lastAt.replies.push(childClone); then the same for each of atPost.replies
HeapDown(h, atPost, lastAt) ==
    LET own == ArrayRef(h.next)
        h1 == NewArray(h)
        childClone == CloneRef(h1.next)
        h2 == NewObject(h1, [h1.obj[atPost] EXCEPT !.parent = <<>>, !.replies = own])
        h3 == [h2 EXCEPT !.arr[h2.obj[lastAt].replies] = Append(@, childClone)]
        replies == h3.obj[atPost].replies
    IN  HeapDownEach(h3, replies, 1, childClone)

\* dir = "root": rootClone = {...atPost}, which shares the replies array of
\* atPost until rootClone.replies = [] is run
HeapRoot(h, atPost) ==
    LET rootClone == CloneRef(h.next)
        h1 == NewObject(h, h.obj[atPost])
        h2 == IF h1.obj[rootClone].parent # <<>>
                 THEN HeapUp(h1, h1.obj[rootClone].parent[1], rootClone)
                 ELSE h1
    IN  IF Len(h2.arr[h2.obj[rootClone].replies]) > 0
            THEN LET replies == h2.obj[rootClone].replies
                     fresh == ArrayRef(h2.next)
                     h3 == [NewArray(h2) EXCEPT !.obj[rootClone].replies = fresh]
                 IN  HeapDownEach(h3, replies, 1, rootClone)
            ELSE h2

\* the parent reference and the replies list of every node of the cache
GraphOf(h, cache) ==
    [id \in DOMAIN cache |->
        [parent |-> h.obj[CacheRef(id)].parent,
         replies |-> h.arr[h.obj[CacheRef(id)].replies]]]

\* the cache as the objects of h hold it: references read as identities
CacheOf(h, cache) ==
    [id \in DOMAIN cache |->
        [parent |-> IF h.obj[CacheRef(id)].parent = <<>> THEN <<>>
                    ELSE <<h.obj[h.obj[CacheRef(id)].parent[1]].post>>,
         replies |-> [i \in DOMAIN h.arr[h.obj[CacheRef(id)].replies] |->
                        h.obj[h.arr[h.obj[CacheRef(id)].replies][i]].post]]]

RECURSIVE ViewOf(_, _)
\* the tree of clones below and above object r, as BuildFocusPost returns it
ViewOf(h, r) ==
    [post |-> h.obj[r].post,
     parent |-> IF h.obj[r].parent = <<>> THEN <<>> ELSE <<ViewOf(h, h.obj[r].parent[1])>>,
     replies |-> [i \in DOMAIN h.arr[h.obj[r].replies] |-> ViewOf(h, h.arr[h.obj[r].replies][i])]]

\* the end of GetThread: the focus is looked up, cloned and returned
FocusOf(g, aturl) ==
    IF g.error # NoError THEN g
    ELSE IF aturl \notin DOMAIN g.ctx.threadCache
        THEN [g EXCEPT !.result = IF aturl \in DOMAIN g.ctx.threadFocus
                                     THEN <<g.ctx.threadFocus[aturl]>> ELSE <<>>]
    ELSE IF StackOverflow(g.ctx.threadCache, aturl)
        THEN [g EXCEPT !.error = RangeError]
    ELSE LET wired == HeapOf(g.ctx.threadCache)
             built == HeapRoot(wired, CacheRef(aturl))
             focusClone == ViewOf(built, CloneRef(wired.next))
         IN  [g EXCEPT !.ctx.threadCache = CacheOf(built, @),
                       !.ctx.threadFocus = MapSet(@, aturl, focusClone),
                       !.result = <<focusClone>>,
                       !.graphs = <<GraphOf(wired, g.ctx.threadCache),
                                    GraphOf(built, g.ctx.threadCache)>>]

RECURSIVE GetThread(_, _, _, _, _)
RECURSIVE WireEntries(_, _, _, _, _, _)
RECURSIVE Reconstruct(_, _, _, _, _, _)

\* the second loop over the entries, from entries[i] on
WireEntries(g, entries, i, aturl, params, force) ==
    IF i > Len(entries) \/ g.error # NoError THEN {g}
    ELSE LET record == entries[i].record
             current == entries[i].identity
         IN  IF record.reply = <<>>
                THEN WireEntries(g, entries, i + 1, aturl, params, force)
             ELSE IF ParentUri(record) \notin DOMAIN g.ctx.threadCache
                THEN IF force
                        THEN WireEntries(g, entries, i + 1, aturl, params, force)
                        ELSE UNION {WireEntries(AfterForcedRun(g, h), entries, i + 1,
                                                aturl, params, force) :
                                      h \in GetThread(g.st, g.ctx, aturl, params, TRUE)}
             ELSE IF current \in DOMAIN g.ctx.threadCache
                THEN WireEntries(
                        [g EXCEPT !.ctx.threadCache = WireEdge(@, ParentUri(record), current)],
                        entries, i + 1, aturl, params, force)
             ELSE WireEntries(g, entries, i + 1, aturl, params, force)

\* GetThread from its second search on
Reconstruct(st, ctx, aturl, params, force, fetches) ==
    IF ~tableExists(st.tables, "thread_post_view")
        THEN {Run(st, ctx, <<>>, NoSuchTable, fetches, 0)}
    ELSE UNION {
        IF exists = <<>> THEN {Run(st, ctx, <<>>, NoError, fetches, 0)}
        ELSE UNION {
            {FocusOf(g, aturl) :
                g \in WireEntries(
                        Run(st, [threadCache |-> NewCache(entries), threadFocus |-> <<>>],
                            <<>>, NoError, fetches, 0),
                        entries, 1, aturl, params, force)} :
            entries \in returnAllLatestEntriesForThread(st.tables, exists[1].data.root_uri)} :
        exists \in searchById(st.tables, "thread_post_view", aturl, IsRootFilter)}

\* the runs GetThread(aturl, params, force) may make on store st, context ctx
GetThread(st, ctx, aturl, params, force) ==
    IF ~tableExists(st.tables, "thread_post_view")
        THEN {Run(st, ctx, <<>>, NoSuchTable, 0, 0)}
    ELSE IF force \/ searchByIdRows(st.tables, "thread_post_view", aturl, IsRootFilter) = {}
        THEN UNION {IF f.error # NoError
                        THEN {Run(f.st, ctx, <<>>, f.error, 1, 0)}
                        ELSE Reconstruct(f.st, ctx, aturl, params, force, 1) :
                      f \in awGetThread(st, aturl, params)}
    ELSE Reconstruct(st, ctx, aturl, params, force, 0)

BrowserGetThread ==
    \E aturl \in ThreadPosts, params \in RequestParams :
      /\ nthread < MaxThreadOps
      /\ \E g \in GetThread(StoreState, context, aturl, params, FALSE) :
           /\ tables' = g.st.tables
           /\ snapshotsets' = g.st.snapshotsets
           /\ nextVersion' = g.st.nextVersion
           /\ now' = g.st.now
           /\ context' = g.ctx
           /\ ret' = [op |-> "GetThread", aturl |-> aturl, result |-> g.result,
                      error |-> g.error, fetches |-> g.fetches, forced |-> g.forced,
                      graphs |-> g.graphs]
      /\ nthread' = nthread + 1
      /\ UNCHANGED <<savelog, nops, runVars, concVars, flatVars, ctxVars>>

(* ------------------- requests on a failing database -------------------- *)
\* the error a rejected db.get / db.all carries
IOError == "SQLITE_IOERR: disk I/O error"

\* the error of a query on a table that was never created
MissingTable == "SQLITE_ERROR: no such table"

\* fetch(recordType, id) when its queries may reject (queryFails): the
\* queries are inside try, whose catch logs and returns undefined
fetchOutcomes(tbls, recordType, id, queryFails) ==
    IF queryFails THEN {[error |-> NoError, value |-> <<>>]}
    ELSE {[error |-> NoError, value |-> v] : v \in fetchResults(tbls, recordType, id)}

FetchOnFailingDb ==
    \E rt \in RecordTypes, id \in PostIds, queryFails \in BOOLEAN :
      \E o \in fetchOutcomes(tables, rt, id, queryFails) :
        /\ ret' = [op |-> "fetch", recordType |-> rt, id |-> id,
                   queryFails |-> queryFails, error |-> o.error, value |-> o.value]
        /\ UNCHANGED <<storeVars, savelog, nops, runVars, browserVars, concVars,
                       flatVars, ctxVars>>

\* searchById(recordType, idPattern) when its query may reject: db.all is
\* awaited outside any try, so the rejection (as "no such table" on a
\* missing table) reaches the caller
searchByIdOutcomes(tbls, recordType, idPattern, queryFails) ==
    IF queryFails THEN {[error |-> IOError, rows |-> <<>>]}
    ELSE IF ~tableExists(tbls, recordType) THEN {[error |-> MissingTable, rows |-> <<>>]}
    ELSE {[error |-> NoError, rows |-> rows] :
             rows \in searchById(tbls, recordType, idPattern, <<>>)}

SearchByIdOnFailingDb ==
    \E rt \in RecordTypes, p \in Patterns, queryFails \in BOOLEAN :
      \E o \in searchByIdOutcomes(tables, rt, p, queryFails) :
        /\ ret' = [op |-> "searchById", recordType |-> rt, pattern |-> p,
                   queryFails |-> queryFails, error |-> o.error, rows |-> o.rows]
        /\ UNCHANGED <<storeVars, savelog, nops, runVars, browserVars, concVars,
                       flatVars, ctxVars>>

(* ------------------ deleteSnapshot, statement by statement ------------- *)
\* the SQL backends
Backends == {"sqlite", "postgresql"}

\* the tables the loop of deleteSnapshot deletes from: every table with a
\* snapshotset column other than snapshotsets
TablesToClean(tbls) == DOMAIN tbls

\* rows of the snapshot are stored in some table
RowsOfSnapshotExist(tbls, s) == \E t \in DOMAIN tbls : \E r \in tbls[t] : r.snapshotset = s

\* BEGIN: what the transaction started from is what ROLLBACK restores
DeleteSnapshotBegin ==
    \E backend \in Backends, s \in SnapshotNames :
      /\ deleteOp = <<>>
      /\ nops < MaxSnapOps
      /\ deleteOp' = [backend |-> backend, snapshotId |-> s,
                      before |-> [tables |-> tables, snapshotsets |-> snapshotsets],
                      todo |-> TablesToClean(tables), indexDone |-> FALSE,
                      changes |-> 0]
      /\ ret' = [op |-> "deleteSnapshot.begin", backend |-> backend, snapshotId |-> s]
      /\ UNCHANGED <<storeVars, saveCalls, inTransaction, savelog, nops,
                     runVars, browserVars, flatVars, ctxVars>>

\* DELETE FROM <table> WHERE snapshotset = ?, one table of the loop: the
\* SQLite store runs the loop first, the PostgreSQL store after the delete
\* from snapshotsets
DeleteSnapshotRows ==
    \E t \in DOMAIN tables :
      /\ deleteOp # <<>>
      /\ t \in deleteOp.todo
      /\ deleteOp.backend = "postgresql" => deleteOp.indexDone
      /\ tables' = [tables EXCEPT ![t] = {r \in @ : r.snapshotset # deleteOp.snapshotId}]
      /\ deleteOp' = [deleteOp EXCEPT !.todo = @ \ {t}]
      /\ ret' = [op |-> "deleteSnapshot.rows", backend |-> deleteOp.backend,
                 snapshotId |-> deleteOp.snapshotId]
      /\ UNCHANGED <<now, snapshotsets, nextVersion, saveCalls, inTransaction, savelog,
                     nops, runVars, browserVars, flatVars, ctxVars>>

\* DELETE FROM snapshotsets WHERE snapshotset = ?: after the loop in the
\* SQLite store, the first statement after BEGIN in the PostgreSQL store
DeleteSnapshotIndex ==
    /\ deleteOp # <<>>
    /\ ~deleteOp.indexDone
    /\ deleteOp.backend = "sqlite" => deleteOp.todo = {}
    /\ snapshotsets' = DeleteIndexRow(snapshotsets, deleteOp.snapshotId)
    /\ deleteOp' = [deleteOp EXCEPT
                       !.indexDone = TRUE,
                       !.changes = Cardinality(snapshotsets) - Cardinality(snapshotsets')]
    /\ ret' = [op |-> "deleteSnapshot.index", backend |-> deleteOp.backend,
               snapshotId |-> deleteOp.snapshotId]
    /\ UNCHANGED <<now, tables, nextVersion, saveCalls, inTransaction, savelog,
                   nops, runVars, browserVars, flatVars, ctxVars>>

\* COMMIT; return result.changes > 0
DeleteSnapshotCommit ==
    /\ deleteOp # <<>>
    /\ deleteOp.indexDone
    /\ deleteOp.todo = {}
    /\ ret' = [op |-> "deleteSnapshot.commit", backend |-> deleteOp.backend,
               snapshotId |-> deleteOp.snapshotId, result |-> deleteOp.changes > 0]
    /\ deleteOp' = <<>>
    /\ nops' = nops + 1
    /\ UNCHANGED <<storeVars, saveCalls, inTransaction, savelog,
                   runVars, browserVars, flatVars, ctxVars>>

\* a statement of the transaction rejects: catch, ROLLBACK, return false
DeleteSnapshotFail ==
    /\ deleteOp # <<>>
    /\ tables' = deleteOp.before.tables
    /\ snapshotsets' = deleteOp.before.snapshotsets
    /\ ret' = [op |-> "deleteSnapshot.failed", backend |-> deleteOp.backend,
               snapshotId |-> deleteOp.snapshotId, result |-> FALSE,
               indexDone |-> deleteOp.indexDone]
    /\ deleteOp' = <<>>
    /\ nops' = nops + 1
    /\ UNCHANGED <<now, nextVersion, saveCalls, inTransaction, savelog,
                   runVars, browserVars, flatVars, ctxVars>>

\* a save made while no deleteSnapshot is in flight
SaveBetweenDeletes == deleteOp = <<>> /\ Save
(* ------------------------ the flatfile backend ------------------------- *)
\* sanitizeId: the characters \ / : * ? " < > | become "_"; the name made
\* from an id is kept apart from the id
sanitizeId(id) == [safe |-> id]

\* the content of the files read and written by save
StorageData(id, data, snapshotset, version, t, hash) ==
    [data |-> data, hash |-> hash, createdAt |-> t, modifiedAt |-> t, id |-> id,
     safeId |-> sanitizeId(id), version |-> version, snapshotset |-> snapshotset,
     safeSnapshotset |-> sanitizeId(snapshotset)]

\* <baseDir>/<recordType>/<safeId>-latest.json: <<>> when there is none
LatestFile(fs, recordType, safeId) ==
    LET found == {f \in fs.latest : f.recordType = recordType /\ f.safeId = safeId}
    IN  IF found = {} THEN <<>> ELSE <<(CHOOSE f \in found : TRUE).content>>

\* writeFile: the file of that name is replaced
WriteLatest(latest, recordType, safeId, content) ==
    {f \in latest : ~(f.recordType = recordType /\ f.safeId = safeId)}
        \cup {[recordType |-> recordType, safeId |-> safeId, content |-> content]}

\* <baseDir>/snapshots/<safeSnapshotset>/<recordType>/<safeId>.json
WriteSnapshotFile(snapfiles, safeSnapshotset, recordType, safeId, content) ==
    {f \in snapfiles : ~(f.snapshot = safeSnapshotset /\ f.recordType = recordType
                            /\ f.safeId = safeId)}
        \cup {[snapshot |-> safeSnapshotset, recordType |-> recordType,
               safeId |-> safeId, content |-> content]}

\* <baseDir>/snapshots/<safeSnapshotset> exists
SnapshotDirExists(fs, safeSnapshotset) == \E d \in fs.meta : d.safeId = safeSnapshotset

\* FlatfileDataStore.save
FlatfileSave ==
    \E rt \in RecordTypes, id \in PostIds, data \in Payloads, snapshotset \in Snapshots :
      LET safeId == sanitizeId(id)
          safeSnapshotset == sanitizeId(snapshotset)
          previous == LatestFile(files, rt, safeId)
          hash == IF previous # <<>>
                     THEN createHash(data, <<createHash(previous[1], <<>>)>>)
                     ELSE createHash(data, <<>>)
          extendedData == StorageData(id, data, snapshotset, nextVersion + 1, now, hash)
      IN  /\ Len(savelog) < MaxSaves
          /\ files' =
               [versions |-> files.versions \cup
                     {[recordType |-> rt, safeId |-> safeId,
                       version |-> nextVersion + 1, content |-> extendedData]},
                latest |-> WriteLatest(files.latest, rt, safeId, extendedData),
                meta |-> IF SnapshotDirExists(files, safeSnapshotset) THEN files.meta
                         ELSE files.meta \cup
                                {[id |-> snapshotset, safeId |-> safeSnapshotset,
                                  createdAt |-> now, modifiedAt |-> now]},
                snapshots |-> WriteSnapshotFile(files.snapshots, safeSnapshotset,
                                                rt, safeId, extendedData)]
          /\ nextVersion' = nextVersion + 1
          /\ savelog' = Append(savelog,
                 [recordType |-> rt, id |-> id, snapshotset |-> snapshotset,
                  data |-> data, version |-> nextVersion + 1, hash |-> hash, at |-> now])
          /\ ret' = [op |-> "save", id |-> id, version |-> nextVersion + 1, hash |-> hash]
          /\ UNCHANGED <<now, snapshotsets, tables, nops, deleted,
                         runVars, browserVars, concVars, ctxVars>>

\* FlatfileDataStore.fetch(recordType, id) without a version: the latest file
FlatfileFetch ==
    \E rt \in RecordTypes, id \in PostIds :
      /\ ret' = [op |-> "flatfile.fetch", recordType |-> rt, id |-> id,
                 file |-> LatestFile(files, rt, sanitizeId(id))]
      /\ UNCHANGED <<storeVars, savelog, nops, flatVars, runVars, browserVars, concVars, ctxVars>>

\* FlatfileDataStore.deleteSnapshot: false when the snapshot directory does
\* not exist, else the directory is removed with all it holds
FlatfileDeleteSnapshot ==
    \E snapshotId \in Snapshots :
      LET safeSnapshotId == sanitizeId(snapshotId)
          existed == SnapshotDirExists(files, safeSnapshotId)
      IN  /\ nops < MaxSnapOps
          /\ files' = [files EXCEPT
                          !.meta = {d \in @ : d.safeId # safeSnapshotId},
                          !.snapshots = {f \in @ : f.snapshot # safeSnapshotId}]
          \* history: the versions stored under the snapshot when it was deleted
          /\ deleted' = IF existed
                           THEN deleted \cup {f.content.version : f \in
                                    {g \in files.versions :
                                        g.content.snapshotset = snapshotId}}
                           ELSE deleted
          /\ ret' = [op |-> "flatfile.deleteSnapshot", snapshotId |-> snapshotId,
                     result |-> existed]
          /\ nops' = nops + 1
          /\ UNCHANGED <<storeVars, savelog, runVars, browserVars, concVars, ctxVars>>

\* FlatfileDataStore.createSnapshot(name): meta.json of the snapshot
\* directory is written, replacing the one already there
FlatfileCreateSnapshot ==
    \E name \in SnapshotNames :
      LET safeSnapshotId == sanitizeId(name)
      IN  /\ nops < MaxSnapOps
          /\ files' = [files EXCEPT !.meta =
                          {d \in @ : d.safeId # safeSnapshotId}
                              \cup {[id |-> name, safeId |-> safeSnapshotId,
                                     createdAt |-> now, name |-> name]}]
          /\ ret' = [op |-> "flatfile.createSnapshot", snapshotId |-> name,
                     result |-> name]
          /\ nops' = nops + 1
          /\ UNCHANGED <<storeVars, savelog, deleted, runVars, browserVars, concVars, ctxVars>>

\* FlatfileDataStore.listSnapshots: id and createdAt of every meta.json,
\* newest first
flatfileListSnapshots(fs) ==
    LET n == Cardinality(fs.meta)
    IN  {[i \in 1..n |-> [id |-> s[i].id, createdAt |-> s[i].createdAt]] :
            s \in {q \in [1..n -> fs.meta] :
                     /\ \A i, j \in 1..n : i # j => q[i] # q[j]
                     /\ \A i, j \in 1..n : i < j => q[i].createdAt >= q[j].createdAt}}

FlatfileListSnapshots ==
    /\ \E l \in flatfileListSnapshots(files) :
          ret' = [op |-> "flatfile.listSnapshots", list |-> l]
    /\ UNCHANGED <<storeVars, savelog, nops, flatVars, runVars, browserVars, concVars, ctxVars>>

\* FlatfileDataStore.exportSnapshot: <<>> (null) when the snapshot directory
\* does not exist; else every file of every table directory under it
flatfileExportSnapshot(fs, snapshotId) ==
    LET safeSnapshotId == sanitizeId(snapshotId)
        inDir == {f \in fs.snapshots : f.snapshot = safeSnapshotId}
        tableDirs == {f.recordType : f \in inDir}
        meta == CHOOSE d \in fs.meta : d.safeId = safeSnapshotId
    IN  IF ~SnapshotDirExists(fs, safeSnapshotId) THEN <<>>
        ELSE <<[id |-> snapshotId, createdAt |-> meta.createdAt,
                tables |-> [t \in tableDirs |->
                              {f.content : f \in {g \in inDir : g.recordType = t}}]]>>

FlatfileExportSnapshot ==
    \E snapshotId \in SnapshotNames :
      /\ ret' = [op |-> "flatfile.exportSnapshot", snapshotId |-> snapshotId,
                 exported |-> flatfileExportSnapshot(files, snapshotId)]
      /\ UNCHANGED <<storeVars, savelog, nops, flatVars, runVars, browserVars, concVars, ctxVars>>

\* the writes of FlatfileDataStore.save in the order made: meta.json of the
\* snapshot (when absent), the versioned file, the latest file, the
\* snapshot copy; the files once the first n of them are done
FilesAfterWrites(fs, recordType, extendedData, n) ==
    LET safeId == extendedData.safeId
        safeSnapshotset == extendedData.safeSnapshotset
    IN  [meta |-> IF n >= 1 /\ ~SnapshotDirExists(fs, safeSnapshotset)
                     THEN fs.meta \cup
                            {[id |-> extendedData.snapshotset, safeId |-> safeSnapshotset,
                              createdAt |-> extendedData.createdAt,
                              modifiedAt |-> extendedData.modifiedAt]}
                     ELSE fs.meta,
         versions |-> IF n >= 2
                         THEN fs.versions \cup
                                {[recordType |-> recordType, safeId |-> safeId,
                                  version |-> extendedData.version,
                                  content |-> extendedData]}
                         ELSE fs.versions,
         latest |-> IF n >= 3 THEN WriteLatest(fs.latest, recordType, safeId, extendedData)
                    ELSE fs.latest,
         snapshots |-> IF n >= 4
                          THEN WriteSnapshotFile(fs.snapshots, safeSnapshotset, recordType,
                                                 safeId, extendedData)
                          ELSE fs.snapshots]

\* FlatfileDataStore.save when one of its writes rejects: the writes are
\* awaited one after the other outside any try, so write number failAt
\* throws to the caller after the writes before it are done
FlatfileSaveFailing ==
    \E rt \in RecordTypes, id \in PostIds, data \in Payloads, snapshotset \in Snapshots,
       failAt \in 1..4 :
      LET previous == LatestFile(files, rt, sanitizeId(id))
          hash == IF previous # <<>>
                     THEN createHash(data, <<createHash(previous[1], <<>>)>>)
                     ELSE createHash(data, <<>>)
          extendedData == StorageData(id, data, snapshotset, nextVersion + 1, now, hash)
      IN  /\ nops < MaxSnapOps
          \* the meta.json write is made only when the file is absent
          /\ failAt = 1 => ~SnapshotDirExists(files, sanitizeId(snapshotset))
          /\ files' = FilesAfterWrites(files, rt, extendedData, failAt - 1)
          /\ nextVersion' = nextVersion + 1
          /\ ret' = [op |-> "flatfile.save", id |-> id, version |-> nextVersion + 1,
                     failAt |-> failAt, error |-> IOError]
          /\ nops' = nops + 1
          /\ UNCHANGED <<now, snapshotsets, tables, savelog, deleted,
                         runVars, browserVars, concVars, ctxVars>>


\* content.id.includes(idPattern): the pattern is a literal piece of the id
Includes(id, idPattern) ==
    \E i \in 1..(Len(id) + 1) :
        /\ i + Len(idPattern) - 1 <= Len(id)
        /\ SubSeq(id, i, i + Len(idPattern) - 1) = idPattern

\* the fieldFilter arguments: none, or a field of the payload and a value
FieldFilters == {<<>>} \cup {<<"text", p.text>> : p \in Payloads}

\* content[fieldFilter.field] === fieldFilter.value, content being the
\* parsed file
ContentMatchesFilter(content, fieldFilter) ==
    \/ fieldFilter = <<>>
    \/ /\ fieldFilter[1] \in DOMAIN content
       /\ content[fieldFilter[1]] = fieldFilter[2]

\* FlatfileDataStore.searchById: of the files of the record type whose
\* content.id includes the pattern, one per safeId is kept, the "-latest"
\* one (save always writes it); the filter is applied to the kept files
flatfileSearchById(fs, recordType, idPattern, fieldFilter) ==
    LET latestVersions == {f \in fs.latest : /\ f.recordType = recordType
                                              /\ Includes(f.content.id, idPattern)}
    IN  {f.content : f \in {g \in latestVersions :
                               ContentMatchesFilter(g.content, fieldFilter)}}

FlatfileSearchById ==
    \E rt \in RecordTypes, p \in Patterns, fieldFilter \in FieldFilters :
      /\ ret' = [op |-> "flatfile.searchById", recordType |-> rt, idPattern |-> p,
                 fieldFilter |-> fieldFilter,
                 found |-> flatfileSearchById(files, rt, p, fieldFilter)]
      /\ UNCHANGED <<storeVars, savelog, nops, flatVars, runVars, browserVars, concVars, ctxVars>>
(* --------------------------- ContextService ---------------------------- *)
ContextNames == {"default", "work"}

\* a Context object: obj is the identity of the object constructed
NewContext(name, obj) == [name |-> name, obj |-> obj]

\* one step of an operation, in the order made: a call on the persistence
\* boundary or an assignment to a field of the service
Event(call, ctx) == [call |-> call, name |-> ctx.name, obj |-> ctx.obj]

NameOnly(name) == [name |-> name, obj |-> 0]

HasContext(ctxs, name) == \E i \in 1..Len(ctxs) : ctxs[i].name = name

\* InMemoryContextHandler.saveContext: Map.set keeps the place of a key
\* that is present and appends a new one
saveContext(ctxs, ctx) ==
    IF HasContext(ctxs, ctx.name)
        THEN [i \in 1..Len(ctxs) |-> IF ctxs[i].name = ctx.name THEN ctx ELSE ctxs[i]]
        ELSE Append(ctxs, ctx)

\* InMemoryContextHandler.loadContext: <<>> stands for undefined
loadContext_Undefined(ctxs, name) == <<>>
loadContext(ctxs, name) ==
    IF HasContext(ctxs, name)
        THEN <<ctxs[CHOOSE i \in 1..Len(ctxs) : ctxs[i].name = name]>>
        ELSE <<>>

\* InMemoryContextHandler.listContexts: the keys in insertion order
listContexts(ctxs) == [i \in 1..Len(ctxs) |-> ctxs[i].name]

\* InMemoryContextHandler.deleteContext
deleteContext(ctxs, name) == SelectSeq(ctxs, LAMBDA c : c.name # name)

\* GetContext(name) run on the fields given: the fields it leaves, the
\* Context it returns and the steps it made
getContext(cur, ctxs, next, name) ==
    IF cur # <<>> /\ cur[1].name = name
        THEN [currentContext |-> cur, contexts |-> ctxs, nextContext |-> next,
              result |-> cur[1], events |-> <<>>]
    ELSE LET loadedContext == loadContext(ctxs, name)
         IN  IF loadedContext # <<>>
                 THEN [currentContext |-> loadedContext, contexts |-> ctxs,
                       nextContext |-> next, result |-> loadedContext[1],
                       events |-> <<Event("loadContext", NameOnly(name)),
                                    Event("currentContext =", loadedContext[1])>>]
             ELSE LET newContext == NewContext(name, next + 1)
                  IN  [currentContext |-> <<newContext>>,
                       contexts |-> saveContext(ctxs, newContext),
                       nextContext |-> next + 1, result |-> newContext,
                       events |-> <<Event("loadContext", NameOnly(name)),
                                    Event("saveContext", newContext),
                                    Event("currentContext =", newContext)>>]

GetContext ==
    \E name \in ContextNames :
      LET g == getContext(currentContext, contexts, nextContext, name)
      IN  /\ nops < MaxContextOps
          /\ currentContext' = g.currentContext
          /\ contexts' = g.contexts
          /\ nextContext' = g.nextContext
          /\ ret' = [op |-> "GetContext", name |-> name, result |-> g.result,
                     events |-> g.events]
          /\ nops' = nops + 1
          /\ UNCHANGED <<selectedContext, storeVars, savelog, runVars, browserVars,
                         concVars, flatVars, heapVars>>

SaveContext ==
    /\ nops < MaxContextOps
    /\ contexts' = IF currentContext # <<>> THEN saveContext(contexts, currentContext[1])
                   ELSE contexts
    /\ ret' = [op |-> "SaveContext",
               events |-> IF currentContext # <<>>
                             THEN <<Event("saveContext", currentContext[1])>> ELSE <<>>]
    /\ nops' = nops + 1
    /\ UNCHANGED <<selectedContext, currentContext, nextContext, storeVars, savelog,
                   runVars, browserVars, concVars, flatVars, heapVars>>

ListContexts ==
    /\ nops < MaxContextOps
    /\ ret' = [op |-> "ListContexts", list |-> listContexts(contexts)]
    /\ nops' = nops + 1
    /\ UNCHANGED <<ctxVars, storeVars, savelog, runVars, browserVars, concVars, flatVars>>

DeleteContext ==
    \E name \in ContextNames :
      /\ nops < MaxContextOps
      /\ currentContext' = IF currentContext # <<>> /\ currentContext[1].name = name
                              THEN <<>> ELSE currentContext
      /\ contexts' = deleteContext(contexts, name)
      /\ ret' = [op |-> "DeleteContext", name |-> name,
                 result |-> HasContext(contexts, name)]
      /\ nops' = nops + 1
      /\ UNCHANGED <<selectedContext, nextContext, storeVars, savelog, runVars,
                     browserVars, concVars, flatVars, heapVars>>

\* the flush SwitchContext starts with: the contexts map it leaves and the
\* step made
SaveCurrent_Skipped(cur, ctxs) == [contexts |-> ctxs, events |-> <<>>]
SaveCurrent(cur, ctxs) ==
    IF cur # <<>>
        THEN [contexts |-> saveContext(ctxs, cur[1]),
              events |-> <<Event("saveContext", cur[1])>>]
        ELSE [contexts |-> ctxs, events |-> <<>>]

SwitchContext ==
    \E name \in ContextNames :
      LET s == SaveCurrent(currentContext, contexts)
          g == getContext(currentContext, s.contexts, nextContext, name)
      IN  /\ nops < MaxContextOps
          /\ selectedContext' = name
          /\ currentContext' = g.currentContext
          /\ contexts' = g.contexts
          /\ nextContext' = g.nextContext
          /\ ret' = [op |-> "SwitchContext", name |-> name, result |-> g.result,
                     events |-> s.events
                                  \o <<Event("selectedContext =", NameOnly(name))>>
                                  \o g.events]
          /\ nops' = nops + 1
          /\ UNCHANGED <<storeVars, savelog, runVars, browserVars, concVars, flatVars, heapVars>>

(* ----------------- the maps of a Context; DataBrowser.GetPosts --------- *)
\* the maps of a Context just constructed (keys only)
EmptyMaps == [posts |-> {}, threadCache |-> {}, threadFocus |-> {}]

\* the SQLiteContextHandler tables before any save
NoContextRows == [contexts |-> {}, posts |-> {}, thread_cache |-> {}, thread_focus |-> {}]

\* the maps of Context object o
MapsOf(h, o) == IF o \in DOMAIN h THEN h[o] ELSE EmptyMaps

\* the heap with the maps of object o set to m
SetMaps(h, o, m) == [x \in (DOMAIN h) \cup {o} |-> IF x = o THEN m ELSE MapsOf(h, x)]

\* entry.identity of the entries of a list
Identities(entries) == {entries[i].identity : i \in DOMAIN entries}

\* DataBrowser.GetPosts(did), the ContextService using the
\* InMemoryContextHandler: the selected context is resolved, and unless
\* loadedPosts names did already the latest post entries of did are put
\* into its posts map under entry.identity
GetPosts ==
    \E did \in Dids :
      LET g == getContext(currentContext, contexts, nextContext, selectedContext)
          o == g.result.obj
          reload == loadedPosts # did
      IN  /\ nops < MaxContextOps
          /\ currentContext' = g.currentContext
          /\ contexts' = g.contexts
          /\ nextContext' = g.nextContext
          /\ \E entryDBs \in (IF reload
                                THEN returnAllLatestEntries(tables, "post", <<did>>, TRUE)
                                ELSE {<<>>}) :
               /\ heap' = IF reload
                             THEN SetMaps(heap, o, [MapsOf(heap, o) EXCEPT
                                     !.posts = @ \cup Identities(entryDBs)])
                             ELSE heap
               /\ loadedIds' = IF reload THEN Identities(entryDBs) ELSE loadedIds
          /\ loadedPosts' = did
          /\ ret' = [op |-> "GetPosts", did |-> did, name |-> selectedContext,
                     reload |-> reload, posts |-> MapsOf(heap', o).posts]
          /\ nops' = nops + 1
          /\ UNCHANGED <<listing, selectedContext, ctxdb, storeVars, savelog, runVars, browserVars,
                         concVars, flatVars>>
(* ------------------------ SQLiteContextHandler ------------------------- *)
\* the rows of one context in a table keyed by (context_name, uri)
RowsFor(name, keys) == {<<name, k>> : k \in keys}

KeysFor(rows, name) == {r[2] : r \in {q \in rows : q[1] = name}}

\* SQLiteContextHandler.saveContext: the contexts row is upserted and every
\* entry of posts, threadCache and threadFocus is written with INSERT OR
\* REPLACE
sqlSaveContext(db, name, maps) ==
    [contexts |-> db.contexts \cup {name},
     posts |-> db.posts \cup RowsFor(name, maps.posts),
     thread_cache |-> db.thread_cache \cup RowsFor(name, maps.threadCache),
     thread_focus |-> db.thread_focus \cup RowsFor(name, maps.threadFocus)]

\* SQLiteContextHandler.loadContext: <<>> (undefined) without a contexts
\* row, else the maps of the Context it constructs from the rows
sqlLoadContext(db, name) ==
    IF name \notin db.contexts THEN <<>>
    ELSE <<[posts |-> KeysFor(db.posts, name),
            threadCache |-> KeysFor(db.thread_cache, name),
            threadFocus |-> KeysFor(db.thread_focus, name)]>>

\* ContextService.GetContext(name) with the SQLiteContextHandler, run on the
\* fields given
sqlGetContext(cur, db, h, next, name) ==
    IF cur # <<>> /\ cur[1].name = name
        THEN [currentContext |-> cur, ctxdb |-> db, heap |-> h, nextContext |-> next]
    ELSE LET loadedContext == sqlLoadContext(db, name)
             newContext == NewContext(name, next + 1)
         IN  IF loadedContext # <<>>
                 THEN [currentContext |-> <<newContext>>, ctxdb |-> db,
                       heap |-> SetMaps(h, next + 1, loadedContext[1]),
                       nextContext |-> next + 1]
                 ELSE [currentContext |-> <<newContext>>,
                       ctxdb |-> sqlSaveContext(db, name, EmptyMaps),
                       heap |-> SetMaps(h, next + 1, EmptyMaps),
                       nextContext |-> next + 1]

SqlGetContext ==
    \E name \in ContextNames :
      LET g == sqlGetContext(currentContext, ctxdb, heap, nextContext, name)
      IN  /\ nops < MaxContextOps
          /\ currentContext' = g.currentContext
          /\ ctxdb' = g.ctxdb
          /\ heap' = g.heap
          /\ nextContext' = g.nextContext
          /\ ret' = [op |-> "sqlite.GetContext", name |-> name,
                     maps |-> MapsOf(g.heap, g.currentContext[1].obj)]
          /\ nops' = nops + 1
          /\ UNCHANGED <<listing, selectedContext, contexts, loadedPosts, loadedIds, storeVars,
                         savelog, runVars, browserVars, concVars, flatVars>>

\* ContextService.SaveContext
SqlSaveContext ==
    /\ nops < MaxContextOps
    /\ ctxdb' = IF currentContext # <<>>
                   THEN sqlSaveContext(ctxdb, currentContext[1].name,
                                       MapsOf(heap, currentContext[1].obj))
                   ELSE ctxdb
    /\ ret' = [op |-> "sqlite.SaveContext", saved |-> currentContext # <<>>]
    /\ nops' = nops + 1
    /\ UNCHANGED <<listing, selectedContext, currentContext, contexts, nextContext, heap,
                   loadedPosts, loadedIds, storeVars, savelog, runVars, browserVars,
                   concVars, flatVars>>

\* ContextService.SwitchContext(name): the current context is saved, then
\* the requested one resolved
SqlSwitchContext ==
    \E name \in ContextNames :
      LET saved == IF currentContext # <<>>
                      THEN sqlSaveContext(ctxdb, currentContext[1].name,
                                          MapsOf(heap, currentContext[1].obj))
                      ELSE ctxdb
          g == sqlGetContext(currentContext, saved, heap, nextContext, name)
      IN  /\ nops < MaxContextOps
          /\ selectedContext' = name
          /\ currentContext' = g.currentContext
          /\ ctxdb' = g.ctxdb
          /\ heap' = g.heap
          /\ nextContext' = g.nextContext
          /\ ret' = [op |-> "sqlite.SwitchContext", name |-> name,
                     maps |-> MapsOf(g.heap, g.currentContext[1].obj)]
          /\ nops' = nops + 1
          /\ UNCHANGED <<listing, contexts, loadedPosts, loadedIds, storeVars, savelog, runVars,
                         browserVars, concVars, flatVars>>

\* DataBrowser.GetPosts(did), the ContextService using the
\* SQLiteContextHandler
SqlGetPosts ==
    \E did \in Dids :
      LET g == sqlGetContext(currentContext, ctxdb, heap, nextContext, selectedContext)
          o == g.currentContext[1].obj
          reload == loadedPosts # did
      IN  /\ nops < MaxContextOps
          /\ currentContext' = g.currentContext
          /\ ctxdb' = g.ctxdb
          /\ nextContext' = g.nextContext
          /\ \E entryDBs \in (IF reload
                                THEN returnAllLatestEntries(tables, "post", <<did>>, TRUE)
                                ELSE {<<>>}) :
               /\ heap' = IF reload
                             THEN SetMaps(g.heap, o, [MapsOf(g.heap, o) EXCEPT
                                     !.posts = @ \cup Identities(entryDBs)])
                             ELSE g.heap
               /\ loadedIds' = IF reload THEN Identities(entryDBs) ELSE loadedIds
          /\ loadedPosts' = did
          /\ ret' = [op |-> "sqlite.GetPosts", name |-> selectedContext,
                     maps |-> MapsOf(heap', o)]
          /\ nops' = nops + 1
          /\ UNCHANGED <<listing, selectedContext, contexts, storeVars, savelog, runVars,
                         browserVars, concVars, flatVars>>

\* DataBrowser.GetThread(aturl) for a stored conversation of the one post
\* aturl: the thread maps of the selected context are replaced by new ones
\* holding that post
SqlGetThread ==
    \E aturl \in PostIds :
      LET g == sqlGetContext(currentContext, ctxdb, heap, nextContext, selectedContext)
          o == g.currentContext[1].obj
      IN  /\ nops < MaxContextOps
          /\ currentContext' = g.currentContext
          /\ ctxdb' = g.ctxdb
          /\ nextContext' = g.nextContext
          /\ heap' = SetMaps(g.heap, o, [MapsOf(g.heap, o) EXCEPT
                                            !.threadCache = {aturl},
                                            !.threadFocus = {aturl}])
          /\ ret' = [op |-> "sqlite.GetThread", name |-> selectedContext,
                     maps |-> MapsOf(heap', o)]
          /\ nops' = nops + 1
          /\ UNCHANGED <<listing, selectedContext, contexts, loadedPosts, loadedIds, storeVars,
                         savelog, runVars, browserVars, concVars, flatVars>>
(* ----------------- ApiWrapper: GetSubcribedBlockLists ------------------ *)
\* The remote collection app.bsky.graph.listblock of a repository has pages
\* 1..pages. listRecords with no cursor serves page 1, with the cursor of
\* page p it serves page p + 1; every page but the last carries a cursor.
ListRecords(pages, cursor) ==
    LET page == IF cursor = <<>> THEN 1 ELSE cursor[1] + 1
    IN  [page |-> page, cursor |-> IF page < pages THEN <<page>> ELSE <<>>]

\* the cursor in the call listRecords({ repo: did, collection: ... }) of the
\* loop: the variable cursor is not among the arguments
RequestCursor(cursor) == <<>>

\* describeRepo(did)
RepoDescription(did) == [did |-> did, service |-> "pds"]

\* the call up to its loop: the repository description is fetched, and
\* downloaded and stored with the default parameters when there is none
BlockListsBegin ==
    \E did \in Dids, pages \in 1..MaxPages, params \in PostParams :
      /\ listing = <<>>
      /\ nops < MaxStores
      /\ \E repodesc \in fetchResults(tables, "repo_description", <<did>>) :
           \E st \in (IF repodesc = <<>>
                         THEN Store(StoreState, StoreCall("repo_description", <<did>>,
                                                          RepoDescription(did), DefaultParams))
                         ELSE {StoreState}) :
             /\ tables' = st.tables
             /\ snapshotsets' = st.snapshotsets
             /\ nextVersion' = st.nextVersion
             /\ now' = st.now
      /\ listing' = <<[did |-> did, params |-> params, pages |-> pages, cursor |-> <<>>,
                       result |-> <<>>, requested |-> [p \in 1..pages |-> 0],
                       pc |-> "request"]>>
      /\ ret' = [op |-> "GetSubcribedBlockLists.begin", did |-> did, pages |-> pages]
      /\ UNCHANGED <<savelog, nops, runVars, browserVars, concVars, flatVars,
                     selectedContext, currentContext, contexts, nextContext,
                     heap, loadedPosts, ctxdb, loadedIds>>

\* a turn of the do/while loop, first half: the request is sent and the
\* call awaits the answer. The requests of a page are counted up to
\* MaxRequests.
BlockListsRequest ==
    /\ listing # <<>>
    /\ listing[1].pc = "request"
    /\ LET l == listing[1]
           result == ListRecords(l.pages, RequestCursor(l.cursor))
           count == IF l.requested[result.page] < MaxRequests
                       THEN l.requested[result.page] + 1 ELSE MaxRequests
       IN  listing' = <<[l EXCEPT !.requested[result.page] = count,
                                  !.result = <<result>>,
                                  !.pc = "await"]>>
    /\ UNCHANGED <<storeVars, savelog, ret, nops, runVars, browserVars, concVars, flatVars,
                   selectedContext, currentContext, contexts, nextContext,
                   heap, loadedPosts, ctxdb, loadedIds>>

\* second half: the answer has come; records.push(...), cursor =
\* result.data.cursor, and the test while (cursor)
BlockListsResponse ==
    /\ listing # <<>>
    /\ listing[1].pc = "await"
    /\ LET l == listing[1]
           result == l.result[1]
       IN  listing' = <<[l EXCEPT !.cursor = result.cursor,
                                  !.result = <<>>,
                                  !.pc = IF result.cursor # <<>> THEN "request" ELSE "store"]>>
    /\ UNCHANGED <<storeVars, savelog, ret, nops, runVars, browserVars, concVars, flatVars,
                   selectedContext, currentContext, contexts, nextContext,
                   heap, loadedPosts, ctxdb, loadedIds>>

\* after the loop: Store("subscribed_blocklists", did, records, params)
BlockListsStore ==
    /\ listing # <<>>
    /\ listing[1].pc = "store"
    /\ LET l == listing[1]
       IN  /\ \E st \in Store(StoreState, StoreCall("subscribed_blocklists", <<l.did>>,
                                                    [records |-> l.requested], l.params)) :
                /\ tables' = st.tables
                /\ snapshotsets' = st.snapshotsets
                /\ nextVersion' = st.nextVersion
                /\ now' = st.now
           /\ ret' = [op |-> "GetSubcribedBlockLists", did |-> l.did, pages |-> l.pages,
                      requested |-> l.requested]
    /\ listing' = <<>>
    /\ nops' = nops + 1
    /\ UNCHANGED <<savelog, runVars, browserVars, concVars, flatVars,
                   selectedContext, currentContext, contexts, nextContext,
                   heap, loadedPosts, ctxdb, loadedIds>>
(* --------------------------- specifications --------------------------- *)
NoRet == [op |-> "none"]

\* a new Context: empty threadCache and threadFocus maps
NoContext == [threadCache |-> <<>>, threadFocus |-> <<>>]

Init ==
    /\ now = 0
    /\ snapshotsets = {}
    /\ tables = <<>>
    /\ nextVersion = 0
    /\ savelog = <<>>
    /\ ret = NoRet
    /\ nops = 0
    /\ runA = <<>>
    /\ runB = <<>>
    /\ runlog = <<>>
    /\ context = NoContext
    /\ nthread = 0
    /\ saveCalls = [c \in Callers |-> IdleCall]
    /\ inTransaction = FALSE
    /\ deleteOp = <<>>
    /\ files = [versions |-> {}, latest |-> {}, meta |-> {}, snapshots |-> {}]
    /\ deleted = {}
    /\ selectedContext = "default"
    /\ currentContext = <<>>
    /\ contexts = <<>>
    /\ nextContext = 0
    /\ heap = <<>>
    /\ loadedPosts = ""
    /\ ctxdb = NoContextRows
    /\ loadedIds = {}
    /\ listing = <<>>

NextSave == Save \/ Tick \/ Fetch \/ SearchById

SpecSave == Init /\ [][NextSave]_vars

NextTwoRuns == SaveBoth \/ TickRuns

SpecTwoRuns == Init /\ [][NextTwoRuns]_vars

NextThread == StoreThread \/ AwGetThread \/ BrowserGetThread

SpecThread == Init /\ [][NextThread]_vars

NextEntry == Save \/ GetPost \/ Tick \/ FetchEntry

SpecEntry == Init /\ [][NextEntry]_vars

NextFlatfile ==
    \/ FlatfileSave
    \/ Tick
    \/ FlatfileFetch
    \/ FlatfileDeleteSnapshot
    \/ FlatfileCreateSnapshot
    \/ FlatfileListSnapshots
    \/ FlatfileExportSnapshot

SpecFlatfile == Init /\ [][NextFlatfile]_vars

NextConcurrent ==
    \/ SaveCall
    \/ SaveBegin
    \/ SaveEnsureSnapshot
    \/ SaveEnsureTable
    \/ SaveSelectPrevious
    \/ SaveInsert
    \/ SaveCommit
    \/ TickCalls

SpecConcurrent == Init /\ [][NextConcurrent]_vars

Next ==
    \/ Save
    \/ Tick
    \/ ListSnapshots
    \/ CreateSnapshot
    \/ DeleteSnapshot
    \/ ImportSnapshot
    \/ CompareSnapshots

Spec == Init /\ [][Next]_vars

NextDuplicate == Save \/ Tick \/ DuplicateSnapshot

SpecDuplicate == Init /\ [][NextDuplicate]_vars

NextDryRun == StoreThread \/ StoreThreadDryRun

SpecDryRun == Init /\ [][NextDryRun]_vars

NextContext ==
    \/ GetContext
    \/ SaveContext
    \/ ListContexts
    \/ DeleteContext
    \/ SwitchContext

SpecContext == Init /\ [][NextContext]_vars

NextLatest == Save \/ GetPost \/ ReturnAllLatestEntries

SpecLatest == Init /\ [][NextLatest]_vars

NextFaults == Save \/ Tick \/ FetchOnFailingDb \/ SearchByIdOnFailingDb

SpecFaults == Init /\ [][NextFaults]_vars

NextFlatfileFaults == FlatfileSave \/ FlatfileSaveFailing \/ FlatfileFetch

SpecFlatfileFaults == Init /\ [][NextFlatfileFaults]_vars


NextFlatfileSearch == FlatfileSave \/ Tick \/ FlatfileSearchById

SpecFlatfileSearch == Init /\ [][NextFlatfileSearch]_vars

NextRoundTrip == Save \/ Tick \/ FetchVersion

SpecRoundTrip == Init /\ [][NextRoundTrip]_vars

NextDeleteSteps ==
    \/ SaveBetweenDeletes
    \/ DeleteSnapshotBegin
    \/ DeleteSnapshotRows
    \/ DeleteSnapshotIndex
    \/ DeleteSnapshotCommit
    \/ DeleteSnapshotFail

SpecDeleteSteps == Init /\ [][NextDeleteSteps]_vars

NextPosts == GetPost \/ GetPosts \/ SwitchContext

SpecPosts == Init /\ [][NextPosts]_vars

NextThreadEntries == StoreThread \/ ReturnAllLatestEntriesForThread

SpecThreadEntries == Init /\ [][NextThreadEntries]_vars

NextImport == Save \/ ImportSnapshotData

SpecImport == Init /\ [][NextImport]_vars

NextKinds == StoreDidRecord \/ FetchDidEntry

SpecKinds == Init /\ [][NextKinds]_vars

NextContextSqlite ==
    \/ GetPost
    \/ SqlGetContext
    \/ SqlSaveContext
    \/ SqlSwitchContext
    \/ SqlGetPosts
    \/ SqlGetThread

SpecContextSqlite == Init /\ [][NextContextSqlite]_vars

\* saves by save and by GetPost, then comparisons
NextCompare == Save \/ GetPost \/ CompareSnapshots

SpecCompare == Init /\ [][NextCompare]_vars

\* calls of GetSubcribedBlockLists, one at a time
NextBlockLists ==
    BlockListsBegin \/ BlockListsRequest \/ BlockListsResponse \/ BlockListsStore

SpecBlockLists == Init /\ [][NextBlockLists]_vars

\* every awaited request is answered and every continuation runs: the
\* remote service is fair and the event loop runs what is ready
SpecBlockListsFair ==
    /\ SpecBlockLists
    /\ WF_vars(BlockListsRequest)
    /\ WF_vars(BlockListsResponse)
    /\ WF_vars(BlockListsStore)
(* ------------------------- C1: the hash chain -------------------------- *)
\* the saves before the n-th one that wrote the same (recordType, id)
SavesBefore(n) ==
    {m \in 1..(n - 1) : /\ savelog[m].recordType = savelog[n].recordType
                        /\ savelog[m].id = savelog[n].id}

\* those among them that no earlier save of that id is more recent than
LatestSavesBefore(n) ==
    {m \in SavesBefore(n) : \A q \in SavesBefore(n) : savelog[q].at <= savelog[m].at}

\* the id of the n-th save is only ever written under one snapshot
OneSnapshotOnly(n) ==
    \A m \in 1..Len(savelog) :
        (savelog[m].recordType = savelog[n].recordType /\ savelog[m].id = savelog[n].id)
            => savelog[m].snapshotset = savelog[n].snapshotset

\* the stored data column of a save: the payload extended with its hash
StoredData(e) == JSONstringify(WithHash(e.data, e.hash))

VersionsIn(tbls, recordType, id, s) ==
    {r \in RowsOf(tbls, recordType) : r.id = id /\ r.snapshotset = s}

\* C3 as stated: fetch(recordType, id) without a version returns the
\* version of maximum modification timestamp among the versions of that id
\* stored in the caller's snapshot, and absence when there is none there.
C3_FetchReturnsLatestOfSnapshot ==
    ret.op = "fetch" =>
        LET mine == VersionsIn(tables, ret.recordType, ret.id, ret.snapshotSet)
        IN  IF mine = {} THEN ret.row = NoRow
            ELSE ret.row # NoRow /\ ret.row[1] \in LatestRows(mine)

(* ------------------------ C4: snapshot isolation ----------------------- *)
\* C4 as stated: a query issued for snapshot S1 returns no row whose
\* snapshotset is another snapshot S2 (here: the rows of searchById).
C4_SearchStaysInSnapshot ==
    ret.op = "searchById" =>
        \A i \in DOMAIN ret.rows : ret.rows[i].snapshotset = ret.snapshotSet

(* -------------------------- C10: prefix search ------------------------- *)
\* the literal pattern "at://abc/"
AbcPrefix == <<"abc">>

\* C10 as stated: searchById(kind, "at://abc/") returns exactly one row for
\* each stored id that starts with the prefix, the most recently modified
\* version of that id, no row of another id, newest-modified first, and the
\* same sequence on every call on an unchanged store.
C10_PrefixSearchLatestPerId ==
    (ret.op = "searchById" /\ ret.pattern = AbcPrefix) =>
        LET stored == RowsOf(tables, ret.recordType)
            ids == {r.id : r \in {q \in stored : IsPrefix(AbcPrefix, q.id)}}
        IN  /\ {ret.rows[i].id : i \in DOMAIN ret.rows} = ids
            /\ \A i, j \in DOMAIN ret.rows : ret.rows[i].id = ret.rows[j].id => i = j
            /\ \A i \in DOMAIN ret.rows :
                  \E r \in LatestRows({q \in stored : q.id = ret.rows[i].id}) :
                      ret.rows[i] = ParsedRow(r)
            /\ \A i, j \in DOMAIN ret.rows :
                  i < j => ret.rows[i].modified_at >= ret.rows[j].modified_at
            /\ Cardinality(searchById(tables, ret.recordType, ret.pattern, <<>>)) = 1

(* ------------------- C5: export / import / compare --------------------- *)
SnapshotHoldsRecords(tbls, s) ==
    \E t \in DOMAIN tbls : \E r \in tbls[t] : r.snapshotset = s

\* the comparison that reports no difference for any table
NoDifferences == <<<<>>>>

\* C5 as stated: for an existing snapshot id holding records and a fresh
\* newId, importSnapshot(newId, exportSnapshot(id)) returns true and
\* compareSnapshots(id, newId) then reports no difference for any table.
C5_ImportedCopyComparesEqual ==
    (/\ ret.op = "importSnapshot"
     /\ ret.fresh
     /\ snapshotExists(snapshotsets, ret.source)
     /\ SnapshotHoldsRecords(tables, ret.source))
        => /\ ret.result = TRUE
           /\ compareSnapshots(snapshotsets, tables, ret.source, ret.snapshotId)
                 = {NoDifferences}

(* ------------------------- C6: delete then list ------------------------ *)
ListedIds(snaps) == {l[i].id : i \in 1..Cardinality(snaps), l \in listSnapshots(snaps)}

\* a step that creates or writes snapshot s
WritesSnapshot(s) ==
    \/ ret'.op = "save" /\ Len(savelog') > Len(savelog)
          /\ savelog'[Len(savelog')].snapshotset = s
    \/ ret'.op \in {"createSnapshot", "importSnapshot"}
          /\ nops' > nops /\ ret'.snapshotId = s

\* C6: right after deleteSnapshot(id) no listing includes id, and a delete
\* that directly follows a successful delete of the same id returns false
C6_AfterDelete ==
    ret.op = "deleteSnapshot" =>
        /\ ret.snapshotId \notin ListedIds(snapshotsets)
        /\ ret.again => ret.result = FALSE

\* C6: an id that is not listed stays unlisted until it is created or written
C6_StaysDeleted ==
    \A s \in SnapshotNames :
        (s \notin ListedIds(snapshotsets) /\ s \in ListedIds(snapshotsets'))
            => WritesSnapshot(s)

\* C6: deleteSnapshot of an id that is not listed returns false
C6_DeleteOfAbsentIsFalse ==
    (ret'.op = "deleteSnapshot" /\ nops' > nops
        /\ ret'.snapshotId \notin ListedIds(snapshotsets))
        => ret'.result = FALSE

DifferingCalls == {n \in 1..Len(runlog) : runlog[n].dataA # runlog[n].dataB}

\* C2 as stated: when the two runs differ only in the payload of version k,
\* the stored hash of every version j >= k differs between the runs and the
\* hash of every version before k is the same in both.
C2_LaterHashesAllDiffer ==
    \A k \in DifferingCalls :
        \A j \in 1..Len(runlog) :
            IF j >= k THEN runlog[j].hashA # runlog[j].hashB
                      ELSE runlog[j].hashA = runlog[j].hashB

(* ------------------- C7: the chain of ancestors ------------------------ *)
\* the posts whose conversation has no reply-parent cycle
AcyclicPosts == {PostA, PostB, PostC, PostD, PostO, PostP}

\* the stored record of a post, read from the post table
StoredRecords(id) == {JSONparse(r.data) : r \in {q \in RowsOf(tables, "post") : q.id = id}}

\* the stored reply parent of a post: <<>> when its record names none or
\* names a post that is not stored
StoredParent(id) ==
    LET named == {rec.reply[1].parent : rec \in {r \in StoredRecords(id) : r.reply # <<>>}}
        stored == {p \in named : StoredRecords(p) # {}}
    IN  IF stored = {} THEN <<>> ELSE <<CHOOSE p \in stored : TRUE>>

RECURSIVE StoredAncestors(_)
\* the ancestors of a post in the stored conversation, nearest first
StoredAncestors(id) ==
    IF StoredParent(id) = <<>> THEN <<>>
    ELSE <<StoredParent(id)[1]>> \o StoredAncestors(StoredParent(id)[1])

RECURSIVE ParentChain(_)
\* the clones above a FocusView node, nearest first
ParentChain(node) ==
    IF node.parent = <<>> THEN <<>>
    ELSE <<node.parent[1]>> \o ParentChain(node.parent[1])

\* GetThread has returned a FocusView for a post of an acyclic conversation
ReturnedFocusView ==
    /\ ret.op = "GetThread"
    /\ ret.error = NoError
    /\ ret.result # <<>>
    /\ ret.aturl \in AcyclicPosts

\* C7: for an acyclic stored conversation and a focus F in it, the parent
\* chain of the FocusView returned by GetThread(F) is exactly F's ancestors
\* in order up to the root, and every ancestor clone has no replies.
C7_ParentChainIsAncestors ==
    ReturnedFocusView =>
        LET chain == ParentChain(ret.result[1])
        IN  /\ ret.result[1].post = ret.aturl
            /\ [i \in DOMAIN chain |-> chain[i].post] = StoredAncestors(ret.aturl)
            /\ \A i \in DOMAIN chain : chain[i].replies = <<>>

\* GetThread(D) returned the chain D -> B -> A for the tree A -> B -> {C, D}
C7_FocusOnLeaf ==
    /\ ReturnedFocusView
    /\ ret.aturl = PostD
    /\ StoredAncestors(PostD) = <<PostB, PostA>>
    /\ ret.result[1].parent # <<>>
    /\ ret.result[1].parent[1].post = PostB
    /\ ret.result[1].parent[1].parent # <<>>
    /\ ret.result[1].parent[1].parent[1].post = PostA
    /\ ret.result[1].parent[1].parent[1].parent = <<>>
    /\ ret.result[1].replies = <<>>

(* --------------------- C8: the fan of descendants ---------------------- *)
\* the stored posts whose record names id as reply parent
StoredChildren(id) ==
    {c \in {r.id : r \in RowsOf(tables, "post")} : StoredParent(c) = <<id>>}

RECURSIVE IsDescendantFan(_, _)
\* the replies of a FocusView node are the stored children of its post, one
\* clone each, without parent pointer, and so on below them
IsDescendantFan(node, depth) ==
    /\ {node.replies[i].post : i \in DOMAIN node.replies} = StoredChildren(node.post)
    /\ \A i, j \in DOMAIN node.replies :
          node.replies[i].post = node.replies[j].post => i = j
    /\ \A i \in DOMAIN node.replies :
          /\ node.replies[i].parent = <<>>
          /\ depth > 0 => IsDescendantFan(node.replies[i], depth - 1)

\* C8 as stated: for an acyclic stored conversation and a focus F, the
\* replies subtree of the FocusView returned by GetThread(F) holds exactly
\* the transitive descendants of F in their stored parent/child structure,
\* each clone without parent pointer.
C8_RepliesAreDescendants ==
    ReturnedFocusView => IsDescendantFan(ret.result[1], StackLimit)

(* ------------------------ C9: reply-parent cycles ---------------------- *)
\* the posts whose stored records form a reply-parent cycle
CyclicPosts == {PostX, PostY, PostZ}

\* C9 as stated: when the stored posts contain a reply-parent cycle (or a
\* post that is its own reply parent), GetThread focused on a node of that
\* conversation terminates: the up recursion of BuildFocusPost makes no more
\* calls than there are nodes and the call stack is not exhausted.
C9_CycleDoesNotExhaustStack ==
    (ret.op = "GetThread" /\ ret.aturl \in CyclicPosts
        /\ ret.aturl \in DOMAIN context.threadCache)
        => /\ ret.error # RangeError
           /\ UpCalls(context.threadCache, ret.aturl, 0)
                 <= Cardinality(DOMAIN context.threadCache)

(* ---------------------- C11: concurrent saves ------------------------- *)
\* C11 as stated: in every interleaving of two concurrent save saveCalls to the
\* same (recordType, id, snapshotset) both saveCalls complete successfully, and
\* the call that inserts later has read the row of the call that inserted
\* earlier as its previous version.
C11_ConcurrentSavesBothSucceed ==
    /\ \A c \in Callers : saveCalls[c].pc # "failed"
    /\ \A c1, c2 \in Callers :
          (saveCalls[c1].order > 0 /\ saveCalls[c2].order = saveCalls[c1].order + 1)
              => saveCalls[c2].previous = saveCalls[c1].row

(* -------------------- C12: one forced re-fetch ------------------------- *)
\* the ThreadNode rows stored for a post
ThreadNodeRows(id) == {r \in RowsOf(tables, "thread_post_view") : r.id = id}

ResolvedWithoutProvenance ==
    /\ ret.op = "fetchEntry"
    /\ ret.row # NoRow
    /\ EntryRowsFor(tables, ret.row[1]) = {}

\* C13 as stated: fetchEntry for a stored record with no provenance entry
\* for (id, snapshot) returns an Entry synthesized from the record's own
\* metadata; it does not return undefined.
C13_MissingProvenanceIsSynthesized ==
    ResolvedWithoutProvenance => ret.result # <<>>

(* -------------- C14: nothing survives a deleted snapshot --------------- *)
\* C14 as stated, for the flatfile backend: after deleteSnapshot(id) has
\* returned true, fetch returns no record that was stored under snapshot id.
C14_FetchReturnsNoDeletedRecord ==
    (ret.op = "flatfile.fetch" /\ ret.file # <<>>)
        => ret.file[1].version \notin deleted

(* ------------ C15: creating an existing snapshot is a no-op ------------ *)
\* what listSnapshots of the flatfile backend reports, as a set
FlatfileListed(fs) == {[id |-> d.id, createdAt |-> d.createdAt] : d \in fs.meta}

\* C15 as stated, for the flatfile backend: createSnapshot(name) on a
\* snapshot that already exists returns name and changes nothing: the
\* createdAt that listSnapshots reports and the records stored under the
\* snapshot are as before, and name is listed exactly once.
C15_CreateExistingIsNoOp ==
    [][\A name \in SnapshotNames :
          (/\ ret'.op = "flatfile.createSnapshot"
           /\ ret'.snapshotId = name
           /\ nops' = nops + 1
           /\ SnapshotDirExists(files, sanitizeId(name)))
          => /\ ret'.result = name
             /\ FlatfileListed(files') = FlatfileListed(files)
             /\ files'.snapshots = files.snapshots
             /\ Cardinality({d \in files'.meta : d.id = name}) = 1]_vars

(* ------------- C16: duplicateSnapshot copies every row ----------------- *)
\* the rows of exported with the id, version and payload of row r
CopiesOf(exported, t, r) ==
    {q \in ExportedRows(exported, t) :
        q.id = r.id /\ q.version = r.version /\ q.data = r.data}

\* C16 as stated: duplicateSnapshot(source, target) on an existing source
\* returns target, and afterwards exportSnapshot(target) holds, in every
\* table the source has rows in, exactly one row for each (id, version) row
\* of exportSnapshot(source), with an equal payload.
C16_DuplicateCopiesEveryRow ==
    [][\A s \in SnapshotNames, t \in SnapshotNames :
          (/\ ret'.op = "duplicateSnapshot"
           /\ ret'.source = s
           /\ ret'.target = t
           /\ nops' = nops + 1
           /\ snapshotExists(snapshotsets, s))
          => /\ ret'.newId = <<t>>
             /\ LET src == exportSnapshot(snapshotsets, tables, s)
                    tgt == exportSnapshot(snapshotsets', tables', t)
                IN  \A k \in TablesOf(src) : \A r \in ExportedRows(src, k) :
                        Cardinality(CopiesOf(tgt, k, r)) = 1]_vars

\* the part of C16 the code keeps: the call on an existing source returns
\* the target id and the target is listed afterwards
C16_DuplicateReturnsTarget ==
    [][\A s \in SnapshotNames, t \in SnapshotNames :
          (/\ ret'.op = "duplicateSnapshot"
           /\ ret'.source = s
           /\ ret'.target = t
           /\ nops' = nops + 1
           /\ snapshotExists(snapshotsets, s))
          => /\ ret'.newId = <<t>>
             /\ snapshotExists(snapshotsets', t)]_vars

(* ---------------- C17: a dry run writes nothing ------------------------ *)
\* C17 as stated, for a thread stored by StorePostRecurse: a request made
\* with params.dryRun = true leaves the store as it was: no record,
\* provenance entry or snapshot row is written.
C17_DryRunWritesNothing ==
    [][(/\ ret'.op = "StorePostRecurse"
        /\ ret'.dryRun
        /\ nthread' = nthread + 1)
       => (tables' = tables /\ snapshotsets' = snapshotsets)]_vars

\* the part of C17 the code keeps: a dry-run thread request writes nothing
\* under the snapshot it names; what it writes is stored by the recursive
\* calls, under the snapshot of the default parameters
C17_DryRunWritesNothingUnderItsSnapshot ==
    [][(/\ ret'.op = "StorePostRecurse"
        /\ ret'.dryRun
        /\ nthread' = nthread + 1)
       => \A t \in DOMAIN tables' :
             \A r \in tables'[t] :
                r.snapshotset # DefaultParams.snapshotSet => r \in RowsOf(tables, t)]_vars

(* --------------- C18: how GetContext resolves a name ------------------- *)
BoundaryCalls == {"saveContext", "loadContext", "listContexts", "deleteContext"}

CallsMade(events) == {events[i].call : i \in 1..Len(events)}

\* C18: GetContext(name) returns the current context itself, without a call
\* on the persistence boundary, when the current context has that name;
\* otherwise the context persistence loads, which becomes current;
\* otherwise a context constructed by this call, which is saved through the
\* boundary before the return (listContexts then includes name) and becomes
\* current.
C18_GetContextResolution ==
    [][\A name \in ContextNames :
          (ret'.op = "GetContext" /\ ret'.name = name /\ nops' = nops + 1)
          => IF currentContext # <<>> /\ currentContext[1].name = name
                THEN /\ ret'.result = currentContext[1]
                     /\ currentContext' = currentContext
                     /\ CallsMade(ret'.events) \cap BoundaryCalls = {}
                     /\ contexts' = contexts
             ELSE IF HasContext(contexts, name)
                THEN /\ \E i \in 1..Len(contexts) : ret'.result = contexts[i]
                     /\ ret'.result.name = name
                     /\ currentContext' = <<ret'.result>>
                     /\ contexts' = contexts
             ELSE    /\ ret'.result.name = name
                     /\ ret'.result.obj > nextContext
                     /\ \E i \in 1..Len(ret'.events) :
                           ret'.events[i] = Event("saveContext", ret'.result)
                     /\ \E i \in 1..Len(contexts') : listContexts(contexts')[i] = name
                     /\ loadContext(contexts', name) = <<ret'.result>>
                     /\ currentContext' = <<ret'.result>>]_vars

\* a GetContext that returned what persistence loaded: the name was not the
\* current one and nothing was constructed
C18_LoadedContextReturned ==
    /\ ret.op = "GetContext"
    /\ "loadContext" \in CallsMade(ret.events)
    /\ "saveContext" \notin CallsMade(ret.events)
    /\ currentContext = <<ret.result>>
    /\ ret.result.obj <= nextContext

(* ----------- C19: SwitchContext flushes before it activates ------------ *)
\* C19: SwitchContext(name) with a current context makes saveContext(current)
\* its first step, before the assignment of selectedContext and any load;
\* after it returns selectedContext = name and the current context is named
\* name.
C19_SwitchSavesCurrentFirst ==
    [][\A name \in ContextNames :
          (ret'.op = "SwitchContext" /\ ret'.name = name /\ nops' = nops + 1)
          => /\ currentContext # <<>>
                  => /\ Len(ret'.events) > 0
                     /\ ret'.events[1] = Event("saveContext", currentContext[1])
                     /\ \E i \in 1..Len(contexts') :
                           contexts'[i].name = currentContext[1].name
             /\ selectedContext' = name
             /\ currentContext' # <<>>
             /\ currentContext'[1].name = name]_vars

\* a switch away from a current context of another name, which was flushed
\* and followed by a load
C19_SwitchedFromAnotherContext ==
    /\ ret.op = "SwitchContext"
    /\ Len(ret.events) >= 3
    /\ ret.events[1].call = "saveContext"
    /\ ret.events[1].name # ret.name
    /\ ret.events[2].call = "selectedContext ="
    /\ ret.events[3].call = "loadContext"
    /\ selectedContext = ret.name

(* ------- C20: returnAllLatestEntries has one Entry per matching id ----- *)
\* the stored ids of the table that match the owner pattern
MatchingIds(tbls, recordType, pattern) ==
    IdsOf(searchByIdRows(tbls, recordType, pattern, <<>>))

\* C20 as stated: the list returned holds exactly one Entry for every stored
\* id matching the owner pattern, with the payload of a most recently
\* modified version of that id; no matching id is omitted, none is twice.
C20_OneLatestEntryPerMatchingId ==
    ret.op = "returnAllLatestEntries"
    => LET matching == MatchingIds(tables, ret.recordType, ret.pattern)
       IN  /\ Len(ret.entries) = Cardinality(matching)
           /\ \A id \in matching :
                 \E i \in 1..Len(ret.entries) :
                    /\ ret.entries[i].identity = id
                    /\ \E r \in SelectLatest(tables, ret.recordType, id) :
                          ret.entries[i].record = JSONparse(r.data)

\* the part of C20 the code keeps: every Entry returned belongs to a
\* matching id, carries the payload of a latest version of it, and no id
\* is returned twice
C20_ReturnedEntriesAreLatest ==
    ret.op = "returnAllLatestEntries"
    => LET matching == MatchingIds(tables, ret.recordType, ret.pattern)
       IN  /\ \A i \in 1..Len(ret.entries) :
                 /\ ret.entries[i].identity \in matching
                 /\ \E r \in SelectLatest(tables, ret.recordType, ret.entries[i].identity) :
                       ret.entries[i].record = JSONparse(r.data)
           /\ \A i, j \in 1..Len(ret.entries) :
                 i # j => ret.entries[i].identity # ret.entries[j].identity

(* ------------- C21: compareSnapshots classifies every id --------------- *)
\* the rows exported for snapshot s in table t that carry the id
ExportedWithId(s, t, id) ==
    {r \in ExportedRows(exportSnapshot(snapshotsets, tables, s), t) : r.id = id}

\* the difference lists reported for table t: all empty when t is left out
ReportedDiff(differences, t) ==
    IF t \in DOMAIN differences THEN differences[t]
    ELSE [onlyIn1 |-> {}, onlyIn2 |-> {}, inBothButDifferent |-> {}]

FlatfileStoredUnder(fs, snapshotId) ==
    {v \in fs.versions : v.content.snapshotset = snapshotId}

\* C22 as stated, for the flatfile backend: exportSnapshot(id) is null iff
\* the snapshot does not exist; otherwise its tables hold every stored
\* version of every id saved under id and no row of another snapshot.
C22_ExportHoldsEveryStoredRow ==
    ret.op = "flatfile.exportSnapshot"
    => /\ ret.exported = <<>> <=> ~SnapshotDirExists(files, sanitizeId(ret.snapshotId))
       /\ ret.exported # <<>>
            => /\ \A v \in FlatfileStoredUnder(files, ret.snapshotId) :
                     /\ v.recordType \in DOMAIN ret.exported[1].tables
                     /\ v.content \in ret.exported[1].tables[v.recordType]
               /\ \A t \in DOMAIN ret.exported[1].tables :
                     \A r \in ret.exported[1].tables[t] : r.snapshotset = ret.snapshotId

\* the part of C22 the flatfile backend keeps: null iff the snapshot does
\* not exist, and every exported row belongs to the snapshot
C22_ExportHoldsOnlyRowsOfTheSnapshot ==
    ret.op = "flatfile.exportSnapshot"
    => /\ ret.exported = <<>> <=> ~SnapshotDirExists(files, sanitizeId(ret.snapshotId))
       /\ ret.exported # <<>>
            => \A t \in DOMAIN ret.exported[1].tables :
                  \A r \in ret.exported[1].tables[t] : r.snapshotset = ret.snapshotId

\* the same statement for the SQLite backend's export of every snapshot
C22_SQLiteExportHoldsEveryStoredRow ==
    \A s \in SnapshotNames :
       LET e == exportSnapshot(snapshotsets, tables, s)
       IN  /\ e = <<>> <=> ~snapshotExists(snapshotsets, s)
           /\ e # <<>>
                => /\ \A t \in DOMAIN tables : \A r \in tables[t] :
                         r.snapshotset = s
                            => (t \in DOMAIN e[1].tables /\ ParsedRow(r) \in e[1].tables[t])
                   /\ \A t \in DOMAIN e[1].tables : \A r \in e[1].tables[t] :
                         r.snapshotset = s

(* -------- C23: a backend failure is propagated, not read as absent ----- *)
\* C23 as stated: when a query of fetch or searchById fails, the caller
\* gets an error, which tells the failure from a record that is not there.
C23_QueryFailureIsPropagated ==
    (ret.op \in {"fetch", "searchById"} /\ "queryFails" \in DOMAIN ret /\ ret.queryFails)
    => ret.error # NoError

\* the part of C23 the code keeps: searchById lets the failure through
C23_SearchFailureIsPropagated ==
    (ret.op = "searchById" /\ "queryFails" \in DOMAIN ret /\ ret.queryFails)
    => ret.error # NoError

(* ------- C24: no post twice in one direction of a FocusView ------------ *)
RECURSIVE FlattenSeqs(_)
\* the concatenation of a sequence of sequences
FlattenSeqs(ss) == IF ss = <<>> THEN <<>> ELSE Head(ss) \o FlattenSeqs(Tail(ss))

RECURSIVE DescendantIds(_)
\* the post ids of the clones below a FocusView node, one per clone
DescendantIds(node) ==
    FlattenSeqs([i \in DOMAIN node.replies |->
                    <<node.replies[i].post>> \o DescendantIds(node.replies[i])])

NoRepeats(s) == \A i, j \in DOMAIN s : s[i] = s[j] => i = j

\* GetThread has returned a FocusView
ReturnedAnyFocusView ==
    /\ ret.op = "GetThread"
    /\ ret.error = NoError
    /\ ret.result # <<>>

\* C24 as stated: in every FocusView returned by GetThread no post id is
\* twice in the ancestor chain and no post id is twice among the
\* descendants.
C24_NoPostTwiceInOneDirection ==
    ReturnedAnyFocusView
    => /\ NoRepeats([i \in DOMAIN ParentChain(ret.result[1]) |->
                        ParentChain(ret.result[1])[i].post])
       /\ NoRepeats(DescendantIds(ret.result[1]))

\* the part of C24 the code keeps: no post id is twice in the ancestor chain
C24_NoPostTwiceAmongAncestors ==
    ReturnedAnyFocusView
    => NoRepeats([i \in DOMAIN ParentChain(ret.result[1]) |->
                     ParentChain(ret.result[1])[i].post])

(* ---------- C25: the root_uri of the ThreadNodes written --------------- *)
RECURSIVE ViewRoot(_)
\* the root ancestor of a post in the thread served: the end of its chain
\* of parents
ViewRoot(p) == IF ViewParent(p) = <<>> THEN p ELSE ViewRoot(ViewParent(p)[1])

\* the ids that may stand for the root ancestor of a post: the root of the
\* thread served and, for a reply, the root its record names
RootAncestors(p) ==
    {ViewRoot(p)} \cup (IF RecordReply(p) = <<>> THEN {} ELSE {RecordReply(p)[1].root})

\* the ThreadNodes stored
ThreadNodes == {JSONparse(r.data) : r \in RowsOf(tables, "thread_post_view")}

C25_RootNodeNamesItself ==
    \A n \in ThreadNodes : (n.parent = <<>> /\ n.is_root) => n.root_uri = n.post

(* ----------- C26: a failed save leaves the store as it was ------------- *)
\* C26 as stated, for the flatfile backend: when a write of save fails the
\* error reaches the caller and no file written by that save remains.
C26_FailedSaveLeavesNoWrite ==
    [][(ret'.op = "flatfile.save" /\ nops' = nops + 1)
       => (ret'.error # NoError /\ files' = files)]_vars

\* the part of C26 the flatfile backend keeps: the error of the failing
\* write reaches the caller, and the latest file and the snapshot copy of
\* the record are as before unless the failure came after them
C26_FailedSaveIsReported ==
    [][(ret'.op = "flatfile.save" /\ nops' = nops + 1)
       => /\ ret'.error # NoError
          /\ ret'.failAt <= 3 => files'.latest = files.latest
          /\ files'.snapshots = files.snapshots]_vars

\* a save without failure writes what four writes leave
FlatfileSaveMakesFourWrites ==
    [][(ret'.op = "save" /\ Len(savelog') = Len(savelog) + 1)
       => \E rt \in RecordTypes :
             \E v \in files'.versions :
                /\ v.version = ret'.version
                /\ files' = FilesAfterWrites(files, rt, v.content, 4)]_vars

(* ------- C27: a parent still missing does not fail GetThread ----------- *)
\* the edges of the working map whose two ends are in the map: the child
\* and the reply parent its stored record names
PresentEdges(cache) ==
    {<<p, c>> \in (DOMAIN cache) \X (DOMAIN cache) :
        \E rec \in StoredRecords(c) : rec.reply # <<>> /\ ParentUri(rec) = p}

SeqRange(s) == {s[i] : i \in DOMAIN s}

\* C27 as stated: when GetThread has made the forced re-fetch because an
\* entry's reply parent was missing from the working map, it does not fail:
\* it returns a FocusView of the focus, and every edge whose two ends are in
\* the map is wired (parent pointer set, child among the parent's replies).
C27_MissingParentDoesNotFail ==
    (ret.op = "GetThread" /\ ret.forced >= 1)
    => /\ ret.error = NoError
       /\ ret.result # <<>>
       /\ ret.result[1].post = ret.aturl
       /\ \A e \in PresentEdges(context.threadCache) :
             /\ context.threadCache[e[2]].parent = <<e[1]>>
             /\ e[2] \in SeqRange(context.threadCache[e[1]].replies)

\* what the code does instead: every request that makes the forced
\* re-fetch ends with the error thrown inside it
C27_ForcedRefetchFails ==
    (ret.op = "GetThread" /\ ret.forced >= 1) => ret.error = TypeError


(* ------------------------------ C28 ----------------------------------- *)
\* the latest stored files of the record type whose id includes the pattern
\* and whose payload has the filtered field equal to the value
PayloadMatches(fs, recordType, idPattern, fieldFilter) ==
    {f.content : f \in {g \in fs.latest :
        /\ g.recordType = recordType
        /\ Includes(g.content.id, idPattern)
        /\ fieldFilter[1] \in DOMAIN g.content.data
        /\ g.content.data[fieldFilter[1]] = fieldFilter[2]}}

\* C28: searchById with a field filter returns exactly the records matching
\* the pattern whose stored payload has payload[field] equal to the value
\* (flatfile backend)
C28_FilterSelectsByPayloadField ==
    (ret.op = "flatfile.searchById" /\ ret.fieldFilter # <<>>)
        => ret.found = PayloadMatches(files, ret.recordType, ret.idPattern, ret.fieldFilter)

\* what the flatfile backend does: a filter on a field of the payload
\* finds nothing, whatever is stored
C28_PayloadFilterFindsNothing ==
    (ret.op = "flatfile.searchById" /\ ret.fieldFilter # <<>>) => ret.found = {}

\* without a filter the latest file of every id including the pattern is
\* returned
C28_UnfilteredFindsStored ==
    (ret.op = "flatfile.searchById" /\ ret.fieldFilter = <<>>)
        => ret.found = {f.content : f \in {g \in files.latest :
                            g.recordType = ret.recordType
                            /\ Includes(g.content.id, ret.idPattern)}}

(* ------------------------------ C29 ----------------------------------- *)
\* the save that returned the version, of that record type and id
SavedAs(recordType, id, version) ==
    {savelog[i] : i \in {j \in DOMAIN savelog :
        /\ savelog[j].recordType = recordType
        /\ savelog[j].id = id
        /\ savelog[j].version = version}}

\* C29: fetch(kind, id, v) after a successful save(kind, id, p, snapshot, v)
\* returns a value equal to p
C29_FetchReturnsSavedPayload ==
    ret.op = "fetch.version"
        => \A s \in SavedAs(ret.recordType, ret.id, ret.version) :
              ret.value = <<s.data>>

\* what the store does: the fetched value has the fields of the payload,
\* with their values, and one field more, "hash", holding the hash save
\* returned
C29_FetchReturnsPayloadAndHash ==
    ret.op = "fetch.version"
        => \A s \in SavedAs(ret.recordType, ret.id, ret.version) :
              /\ ret.value # <<>>
              /\ DOMAIN ret.value[1] = (DOMAIN s.data) \cup {"hash"}
              /\ \A k \in DOMAIN s.data : ret.value[1][k] = s.data[k]
              /\ ret.value[1].hash = s.hash

\* a version that no save of the record returned is not found
C29_UnsavedVersionIsUndefined ==
    (ret.op = "fetch.version" /\ SavedAs(ret.recordType, ret.id, ret.version) = {})
        => ret.value = <<>>

(* ------------------------------ C30 ----------------------------------- *)
\* the deleteSnapshot in flight was called on a snapshot that had rows
\* and an index entry
DeletingStoredSnapshot ==
    /\ deleteOp # <<>>
    /\ snapshotExists(deleteOp.before.snapshotsets, deleteOp.snapshotId)
    /\ RowsOfSnapshotExist(deleteOp.before.tables, deleteOp.snapshotId)

\* C30: at no step of deleteSnapshot is the index entry of the snapshot
\* removed while rows of the snapshot still exist
C30_IndexRemovedOnlyAfterRows ==
    (DeletingStoredSnapshot /\ ~snapshotExists(snapshotsets, deleteOp.snapshotId))
        => ~RowsOfSnapshotExist(tables, deleteOp.snapshotId)

\* the SQLite store removes the rows first
C30_SQLiteRemovesRowsFirst ==
    (DeletingStoredSnapshot /\ deleteOp.backend = "sqlite"
        /\ ~snapshotExists(snapshotsets, deleteOp.snapshotId))
        => ~RowsOfSnapshotExist(tables, deleteOp.snapshotId)

\* the PostgreSQL store removes the index entry first: while rows of the
\* snapshot are left in its transaction, the index entry is gone
C30_PostgresRemovesIndexFirst ==
    (DeletingStoredSnapshot /\ deleteOp.backend = "postgresql"
        /\ RowsOfSnapshotExist(tables, deleteOp.snapshotId))
        => (deleteOp.indexDone <=> ~snapshotExists(snapshotsets, deleteOp.snapshotId))

\* a failed deleteSnapshot leaves the index entry of every snapshot that
\* has rows
C30_FailureLeavesIndexOfStoredRows ==
    ret.op = "deleteSnapshot.failed"
        => \A s \in Snapshots : RowsOfSnapshotExist(tables, s) => snapshotExists(snapshotsets, s)

(* ------------------------------ C31 ----------------------------------- *)
\* C31: after GetPosts(did) returns, the posts map of the selected context
\* holds every post of did the store returned at load time, also when the
\* context was switched between two GetPosts(did) calls
C31_SelectedContextHoldsLoadedPosts ==
    ret.op = "GetPosts" => loadedIds \subseteq ret.posts

\* a GetPosts call that does load leaves the loaded posts in the context
\* it returns
C31_ReloadFillsSelectedContext ==
    (ret.op = "GetPosts" /\ ret.reload) => loadedIds \subseteq ret.posts

\* the marker is kept by the DataBrowser, not by the context: a call for
\* the owner loaded last never loads, whatever the selected context holds
C31_MarkerIgnoresContext ==
    [][(GetPosts /\ ret'.did = loadedPosts) => ~ret'.reload]_vars

(* ------------------------------ C32 ----------------------------------- *)
\* the post ids that have a stored ThreadNode with the root_uri
PostsOfConversation(tbls, root_aturl) ==
    {r.id : r \in {q \in RowsOf(tbls, "thread_post_view") :
                      JSONparse(q.data).root_uri = root_aturl}}

\* C32: returnAllLatestEntriesForThread(root) returns exactly one entry for
\* each post id whose stored ThreadNode has root_uri = root, also when a
\* ThreadNode has several versions
C32_OneEntryPerPostOfConversation ==
    ret.op = "returnAllLatestEntriesForThread"
        => /\ Identities(ret.entries) = PostsOfConversation(tables, ret.root_aturl)
           /\ Len(ret.entries) = Cardinality(PostsOfConversation(tables, ret.root_aturl))

\* what holds: the posts returned are the posts of the conversation, and
\* each is returned once per stored version of its ThreadNode
C32_OneEntryPerThreadNodeVersion ==
    ret.op = "returnAllLatestEntriesForThread"
        => /\ Identities(ret.entries) = PostsOfConversation(tables, ret.root_aturl)
           /\ Len(ret.entries) =
                 Cardinality({q \in RowsOf(tables, "thread_post_view") :
                                 JSONparse(q.data).root_uri = ret.root_aturl})

(* ------------------------------ C33 ----------------------------------- *)
\* the rows of every table that do not belong to snapshot s
RowsOutside(tbls, s) == UNION {{r \in tbls[t] : r.snapshotset # s} : t \in DOMAIN tbls}

\* an imported record has the id and version of row r
ImportedOver(data, r) ==
    \E t \in DOMAIN data.tables : \E rec \in data.tables[t] :
        rec.id = r.id /\ rec.version = r.version

\* C33: importSnapshot(newId, data) leaves every row of every other
\* snapshot as it was, a row with the id and version of an imported row
\* included
C33_ImportLeavesOtherSnapshots ==
    [][(ImportSnapshotData /\ ret'.op = "importSnapshot.data")
          => \A r \in RowsOutside(tables, ret'.snapshotId) :
                r \in RowsOutside(tables', ret'.snapshotId)]_vars

\* what holds: the rows of other snapshots that no imported record
\* conflicts with are left as they were, and a row that an imported record
\* conflicts with keeps its id, version, snapshot and created_at
C33_ImportLeavesUnrelatedRows ==
    [][(ImportSnapshotData /\ ret'.op = "importSnapshot.data")
          => \A r \in RowsOutside(tables, ret'.snapshotId) :
                IF ImportedOver(ret'.data, r)
                    THEN \E q \in RowsOutside(tables', ret'.snapshotId) :
                            /\ q.id = r.id /\ q.version = r.version
                            /\ q.snapshotset = r.snapshotset
                            /\ q.created_at = r.created_at
                    ELSE r \in RowsOutside(tables', ret'.snapshotId)]_vars

(* ------------------------------ C34 ----------------------------------- *)
\* C34: the Entry returned by fetchEntry(kind, id) describes the requested
\* record: its recordType is kind and its identity is the id, also when
\* records of several kinds are stored under the id in one snapshot
C34_EntryDescribesRequestedRecord ==
    (ret.op = "fetchEntry.did" /\ ret.result # <<>>)
        => /\ ret.result[1].recordType = ret.recordType
           /\ ret.result[1].identity = ret.id

\* the identity half: the Entry returned carries the id asked for
C34_EntryCarriesRequestedId ==
    (ret.op = "fetchEntry.did" /\ ret.result # <<>>) => ret.result[1].identity = ret.id

\* the record half: the Entry carries the payload of the record row of
\* the kind asked for
C34_EntryCarriesRecordOfKind ==
    (ret.op = "fetchEntry.did" /\ ret.result # <<>>)
        => /\ ret.row # NoRow
           /\ ret.row[1] \in RowsOf(tables, ret.recordType)
           /\ ret.result[1].record = JSONparse(ret.row[1].data)

(* ------------------------------ C35 ----------------------------------- *)
\* the rows a step adds, of every table
RowsAdded(before, after) ==
    UNION {after[t] \ RowsOf(before, t) : t \in DOMAIN after}

\* the snapshot ids of the requests made
RequestSnapshots == {p.snapshotSet : p \in RequestParams}

\* C35: every record and provenance entry written while a thread is stored
\* for a request is stored under the request's params.snapshotSet, the
\* parents and replies included
C35_ThreadRowsCarryRequestSnapshot ==
    [][(StoreThread /\ nthread' = nthread + 1)
          => \A r \in RowsAdded(tables, tables') : r.snapshotset \in RequestSnapshots]_vars

\* what holds: the rows written for the focus post carry the request's
\* snapshot, the rows written for the posts above and below it the
\* snapshot "" of new RequestParams()
C35_OnlyFocusCarriesRequestSnapshot ==
    [][(StoreThread /\ nthread' = nthread + 1)
          => \A r \in RowsAdded(tables, tables') :
                IF r.id \in {ret'.aturl, <<ret'.aturl[1]>>}
                    THEN r.snapshotset \in RequestSnapshots \cup {DefaultParams.snapshotSet}
                    ELSE r.snapshotset = DefaultParams.snapshotSet]_vars

(* ------------------------------ C36 ----------------------------------- *)
\* the rows of the handler hold every key of the maps under the name
SavedIn(db, name, maps) ==
    /\ name \in db.contexts
    /\ maps.posts \subseteq KeysFor(db.posts, name)
    /\ maps.threadCache \subseteq KeysFor(db.thread_cache, name)
    /\ maps.threadFocus \subseteq KeysFor(db.thread_focus, name)

\* the active context is replaced by one of another name
ActiveContextReplaced ==
    /\ currentContext # <<>>
    /\ currentContext' # <<>>
    /\ currentContext'[1].name # currentContext[1].name

\* C36: whenever the active context is replaced by a different one, through
\* SwitchContext or through GetContext, the outgoing context has been saved
\* first, so that what it held is there when it is activated again
C36_OutgoingContextIsSaved ==
    [][ActiveContextReplaced
          => SavedIn(ctxdb', currentContext[1].name,
                     MapsOf(heap, currentContext[1].obj))]_vars

\* SwitchContext does save the outgoing context
C36_SwitchSavesOutgoing ==
    [][(ActiveContextReplaced /\ ret'.op = "sqlite.SwitchContext")
          => SavedIn(ctxdb', currentContext[1].name,
                     MapsOf(heap, currentContext[1].obj))]_vars

\* GetContext does not write the outgoing context: the rows stored for it
\* are those stored before the call
C36_GetContextLeavesOutgoingRows ==
    [][(ActiveContextReplaced /\ ret'.op = "sqlite.GetContext")
          => /\ KeysFor(ctxdb'.posts, currentContext[1].name)
                   = KeysFor(ctxdb.posts, currentContext[1].name)
             /\ KeysFor(ctxdb'.thread_cache, currentContext[1].name)
                   = KeysFor(ctxdb.thread_cache, currentContext[1].name)]_vars

(* ------------------------------ C39 ----------------------------------- *)
\* the current context is saved by this step
SavesCurrentContext == SqlSaveContext /\ currentContext # <<>>

\* C39: loadContext(name) after saveContext(ctx) returns a context whose
\* posts, threadCache and threadFocus maps have exactly the keys ctx had at
\* that save
C39_LoadReturnsKeysOfLastSave ==
    [][SavesCurrentContext
          => sqlLoadContext(ctxdb', currentContext[1].name)
                = <<MapsOf(heap, currentContext[1].obj)>>]_vars

\* what holds: the context loaded after a save has every key the saved
\* context had, and the keys of every earlier save of that name
C39_LoadReturnsKeysOfEverySave ==
    [][SavesCurrentContext
          => /\ SavedIn(ctxdb', currentContext[1].name, MapsOf(heap, currentContext[1].obj))
             /\ SavedIn(ctxdb', currentContext[1].name,
                        IF sqlLoadContext(ctxdb, currentContext[1].name) = <<>>
                            THEN EmptyMaps
                            ELSE sqlLoadContext(ctxdb, currentContext[1].name)[1])]_vars
(* ------- C37: compareSnapshots lists every id whose versions differ ---- *)
\* the (version, content) pairs that snapshot s holds for the id in table t
VersionsHeld(s, t, id) ==
    {<<r.version, r.data>> : r \in ExportedWithId(s, t, id)}

\* the id has several versions in one of the two compared snapshots
SeveralVersions(s1, s2, t, id) ==
    \/ Cardinality(ExportedWithId(s1, t, id)) > 1
    \/ Cardinality(ExportedWithId(s2, t, id)) > 1

\* the tables the stored records and their provenance entries are in
ComparedTables == RecordTypes \cup {"entry"}

\* C37: in the result of compareSnapshots(id1, id2), for every table and
\* every record id: when the two snapshots hold different content for some
\* (id, version) row, or one holds a version of the id that the other lacks,
\* the id is in onlyIn1, onlyIn2 or inBothButDifferent of the table; this
\* also when the id has several versions in a snapshot.
C37_DifferingIdIsListed ==
    (ret.op = "compareSnapshots" /\ ret.differences # <<>>)
    => \A t \in ComparedTables : \A id \in PostIds :
          LET d == ReportedDiff(ret.differences[1], t)
          IN  VersionsHeld(ret.id1, t, id) # VersionsHeld(ret.id2, t, id)
                 => id \in d.onlyIn1 \cup d.onlyIn2 \cup d.inBothButDifferent

\* a comparison where an id has several versions in one snapshot, the other
\* snapshot holds a version with the content of one of them, and the id is
\* listed
C37_ComparedSeveralVersions ==
    /\ ret.op = "compareSnapshots"
    /\ ret.differences # <<>>
    /\ \E t \in ComparedTables : \E id \in PostIds :
         /\ SeveralVersions(ret.id1, ret.id2, t, id)
         /\ ExportedWithId(ret.id1, t, id) # {}
         /\ ExportedWithId(ret.id2, t, id) # {}
         /\ \E r1 \in ExportedWithId(ret.id1, t, id), r2 \in ExportedWithId(ret.id2, t, id) :
               r1.data = r2.data
         /\ id \in ReportedDiff(ret.differences[1], t).inBothButDifferent
(* ------------- C38: BuildFocusPost leaves the cache as wired ----------- *)
\* GetThread returned a FocusView: BuildFocusPost was called on the cache
FocusViewBuilt ==
    /\ ret.op = "GetThread"
    /\ ret.error = NoError
    /\ ret.graphs # <<>>

\* C38: after GetThread has built a FocusView, every node of the wired
\* threadCache has the parent reference and the replies list (same
\* elements, same order) it had before BuildFocusPost was called, whatever
\* the position of the focus in the conversation.
C38_FocusLeavesCacheAsWired ==
    FocusViewBuilt => ret.graphs[2] = ret.graphs[1]

\* a FocusView was built for a focus that has a parent and replies: the
\* "up" and the "down" direction were both taken from the focus clone
C38_FocusWithParentAndReplies ==
    /\ FocusViewBuilt
    /\ ret.result # <<>>
    /\ ret.graphs[1][ret.aturl].parent # <<>>
    /\ Len(ret.graphs[1][ret.aturl].replies) > 0
    /\ ret.result[1].parent # <<>>
    /\ Len(ret.result[1].replies) > 0
(* -------------- C40: GetSubcribedBlockLists terminates ----------------- *)
\* a call of GetSubcribedBlockLists is in its loop or about to store
ListingInFlight == listing # <<>>

\* C40: under a fair remote service, every call of GetSubcribedBlockLists on
\* a collection of finitely many pages ends: its loop leaves after the page
\* that carries no cursor and the call stores the records and returns.
C40_BlockListsTerminates == ListingInFlight ~> ~ListingInFlight

\* C40: the loop requests each page of the collection at most once.
C40_EachPageRequestedAtMostOnce ==
    ListingInFlight => \A p \in DOMAIN listing[1].requested : listing[1].requested[p] <= 1

\* the loop requests page 1 and no other page, however many pages there are
C40_OnlyFirstPageRequested ==
    ListingInFlight => \A p \in DOMAIN listing[1].requested :
                          p > 1 => listing[1].requested[p] = 0

\* a call on a collection of one page ends
C40_SinglePageTerminates ==
    (ListingInFlight /\ listing[1].pages = 1) ~> ~ListingInFlight

\* a call that has returned made one request, to the only page
C40_ReturnsOnlyForOnePage ==
    ret.op = "GetSubcribedBlockLists" => (ret.pages = 1 /\ ret.requested[1] = 1)
====
